---- MODULE Spec2Model ----
\* Verification model of the scraping state machine pattern:
\*   - CascadeDetector.detect            (src/src/state_detector.py)
\*   - StateMachineExecutor.run          (src/examples/simple_example.py)
\*   - NetworkRotator                    (src/src/network.py)
\*   - BehaviorScaler                    (src/src/behavior.py)
\*   - CascadeExecutor.execute           (src/src/cascade.py)
\*   - CompositeDetector.detect          (src/src/state_detector.py)
\*   - CascadeMetrics                    (src/src/cascade_metrics.py)
\*   - a NetworkRotator and a BehaviorScaler shared by two workers
\*   - DOMElementDetector.detect         (src/src/state_detector.py)
\*   - RateLimitedState, BackoffState    (src/examples/error_states.py)
\* Each component has its own specification; the variables of the other
\* components stay at their idle values.
EXTENDS Integers, Sequences, FiniteSets, TLC

VARIABLES
    \* ---- CascadeDetector ----
    detectors,        \* self.detectors: what each child detector does when called
    min_confidence,   \* self.min_confidence, in tenths
    cd_pc,            \* position of the running detect() call
    cd_i,             \* loop index i of detect(), 1-based
    best_result,      \* local best_result of detect()
    cd_return,        \* value returned by detect(), NoReturn while running
    cd_invoked,       \* indices of the detectors whose detect() was called, in call order
    \* ---- StateMachineExecutor ----
    states,           \* self.states: the registered state names, in registration order
    detect_of,        \* state name -> what its detect() returns on the initial context
    transition_of,    \* state name -> what its transition() returns
    context,          \* self.context: key -> value, Absent for a missing key
    current_state,    \* self.current_state (a state name, or None)
    run_pc,           \* position of run()
    exec_result,      \* local result of run(): what execute() returned
    next_state_name,  \* local next_state_name of run()
    calls,            \* the calls made on the states so far: <<method, state name>>
    iterations,       \* number of loop iterations started
    initial_context,  \* the context the executor was constructed with
    exec_context,     \* the context execute() was called with, this iteration
    transition_seen,  \* the context transition() was called with, this iteration
    \* ---- NetworkRotator ----
    proxies,          \* self.proxies: the pool, in list order
    proxy_metrics,    \* self.proxy_metrics: proxy -> counters
    quarantined,      \* self.quarantined: proxy -> expiry time, NotQuarantined if absent
    current_proxy,    \* self.current_proxy (a proxy, or None)
    now,              \* datetime.utcnow(), in seconds
    ticks,            \* number of clock advances so far
    rot_call,         \* the last call made on the rotator, with what it returned
    \* ---- BehaviorScaler ----
    min_profile,      \* self.min_profile
    max_profile,      \* self.max_profile
    current_level,    \* self.current_level, in thousandths
    escalations,      \* number of escalate() calls so far
    bs_call,          \* the last call made on the scaler, with what it returned
    \* ---- CascadeExecutor ----
    selectors,        \* self.selectors: kind of each selector and what the driver does with it
    has_driver,       \* whether context['driver'] is there
    ce_pc,            \* position of the running execute() call
    ce_i,             \* loop index of execute(), 1-based
    ce_return,        \* value returned by execute(), NotReturned while running
    ce_tried,         \* indices of the selectors handed to _try_selector, in order
    ce_queries,       \* indices of the selectors for which the driver was queried, in order
    \* ---- CompositeDetector ----
    comp_detectors,   \* self.detectors: what each child detector does when called
    logic,            \* self.logic
    comp_pc,          \* position of the running detect() call
    comp_results,     \* local results of detect(), as far as the comprehension has got
    comp_return,      \* value returned by detect(), NoReturn while running
    \* ---- CascadeMetrics ----
    total_attempts,     \* self.total_attempts
    primary_successes,  \* self.primary_successes
    fallback_successes, \* self.fallback_successes
    text_fallbacks,     \* self.text_fallbacks
    visual_fallbacks,   \* self.visual_fallbacks
    position_sum,       \* self.position_sum, in halves
    cascade_length,     \* self.cascade_length
    recorded,           \* the record_success calls so far: <<position, cascade_length>>
    cm_call,            \* the last call made on the metrics, with what it returned
    \* ---- workers sharing one NetworkRotator ----
    rw_pc,            \* worker -> position in its report_success / report_failure call
    rw_proxy,         \* worker -> the proxy argument of its call
    rw_reason,        \* worker -> the reason argument of its report_failure call
    rw_read,          \* worker -> the counter value it has read and not yet written back
    rw_counts,        \* proxy -> number of report_success and report_failure calls made
    \* ---- workers sharing one BehaviorScaler ----
    sw_pc,            \* worker -> position in its escalate call
    sw_args,          \* worker -> the arguments of its escalate call
    sw_read,          \* worker -> the current_level it has read and not yet written back
    sw_start,         \* current_level before the two calls
    \* ---- DOMElementDetector ----
    dom_selectors,    \* self.selectors: what the driver does when queried for each
    dom_selector_type, \* self.selector_type
    dom_driver,       \* whether context['driver'] is there
    dom_pc,           \* position of the running detect() call
    dom_i,            \* loop index of detect(), 1-based
    dom_return,       \* value returned by detect(), NoReturn while running
    dom_queries       \* the driver queries made so far: <<method, selector index>>

cdVars == <<detectors, min_confidence, cd_pc, cd_i, best_result, cd_return, cd_invoked>>

exVars == <<states, detect_of, transition_of, context, current_state, run_pc,
            exec_result, next_state_name, calls, iterations, initial_context,
            exec_context, transition_seen>>

rotVars == <<proxies, proxy_metrics, quarantined, current_proxy, now, ticks, rot_call>>

bsVars == <<min_profile, max_profile, current_level, escalations, bs_call>>

ceVars == <<selectors, has_driver, ce_pc, ce_i, ce_return, ce_tried, ce_queries>>

compVars == <<comp_detectors, logic, comp_pc, comp_results, comp_return>>

cmVars == <<total_attempts, primary_successes, fallback_successes, text_fallbacks,
            visual_fallbacks, position_sum, cascade_length, recorded, cm_call>>

rwVars == <<rw_pc, rw_proxy, rw_reason, rw_read, rw_counts>>

swVars == <<sw_pc, sw_args, sw_read, sw_start>>

domVars == <<dom_selectors, dom_selector_type, dom_driver, dom_pc, dom_i, dom_return,
             dom_queries>>

vars == <<cdVars, exVars, rotVars, bsVars, ceVars, compVars, cmVars, rwVars, swVars,
          domVars>>

-----------------------------------------------------------------------------
\* Bounds

MaxDetectors == 3

\* run() is followed for at most MaxSteps loop iterations
MaxSteps == 4

\* at most MaxRequests report_success / report_failure calls in total
MaxRequests == 2

\* the clock advances at most MaxTicks times
MaxTicks == 2

\* at most MaxEscalations escalate() calls on a scaler
MaxEscalations == 4

\* a cascade has at most MaxSelectors selectors
MaxSelectors == 3

\* at most MaxRecords record_success / record_failure calls on cascade metrics
MaxRecords == 3

\* Confidence values are tenths of the float in [0,1]: 7 stands for 0.7.
ConfLevels == {0, 5, 7, 9, 10}
MinConfLevels == {0, 5, 8}

-----------------------------------------------------------------------------
\* DetectionResult and the child detectors

NoReturn == [none |-> TRUE]

DetectionResult(d, c, r) == [detected |-> d, confidence |-> c, reasoning |-> r]

\* What a child detector does on the context of this call: it raises, or it
\* returns a DetectionResult.
ChildOutcomes ==
    {[raises |-> TRUE, detected |-> FALSE, confidence |-> 0]} \cup
    [raises : {FALSE}, detected : BOOLEAN, confidence : ConfLevels]

SeqsUpTo(S, n) == UNION {[1..k -> S] : k \in 0..n}

\* result.detected and result.confidence >= self.min_confidence
Accepts_strict(o) == ~o.raises /\ o.detected /\ o.confidence > min_confidence

Accepts(o) == ~o.raises /\ o.detected /\ o.confidence >= min_confidence

-----------------------------------------------------------------------------
\* States and the shared context

None == "None"
Absent == "absent"

StateNames == {"A", "B", "C"}
Keys == {"k1", "k2"}
Values == {"v1", "v2"}

Contexts == [Keys -> Values \cup {Absent}]

EmptyMap == [k \in Keys |-> Absent]

\* the contexts an executor is constructed with
InitialContexts == {EmptyMap, [k \in Keys |-> "v1"]}

\* what execute() may return: None, or a mapping (possibly empty)
ExecResults ==
    { [is_none |-> TRUE, map |-> EmptyMap],
      [is_none |-> FALSE, map |-> EmptyMap],
      [is_none |-> FALSE, map |-> [k \in Keys |-> IF k = "k1" THEN "v2" ELSE Absent]],
      [is_none |-> FALSE, map |-> [k \in Keys |-> IF k = "k1" THEN "v1" ELSE "v2"]] }

\* min(a, b) and max(a, b)
Minimum(a, b) == IF a <= b THEN a ELSE b
Maximum(a, b) == IF a >= b THEN a ELSE b

Range(f) == {f[i] : i \in DOMAIN f}

DistinctSeqs(S, n) == {q \in SeqsUpTo(S, n) : \A i, j \in DOMAIN q : i # j => q[i] # q[j]}

\* `if result:` - None and the empty mapping are falsy
Truthy_never(r) == FALSE
Truthy(r) == ~r.is_none /\ \E k \in Keys : r.map[k] # Absent

\* self.context.update(result)
ContextUpdate_keep(ctx, r) == [k \in Keys |-> IF ctx[k] # Absent THEN ctx[k] ELSE r.map[k]]

ContextUpdate(ctx, r) == [k \in Keys |-> IF r.map[k] # Absent THEN r.map[k] ELSE ctx[k]]

\* index of the first state, in dict order, whose detect() is true; 0 if none
FirstDetecting_last ==
    IF \E i \in DOMAIN states : detect_of[states[i]]
    THEN CHOOSE i \in DOMAIN states :
            /\ detect_of[states[i]]
            /\ \A j \in DOMAIN states : j > i => ~detect_of[states[j]]
    ELSE 0

FirstDetecting ==
    IF \E i \in DOMAIN states : detect_of[states[i]]
    THEN CHOOSE i \in DOMAIN states :
            /\ detect_of[states[i]]
            /\ \A j \in 1..(i - 1) : ~detect_of[states[j]]
    ELSE 0

\* next_state_name and next_state_name in self.states
NextIsRegistered_any(n) == n # None

NextIsRegistered(n) == n # None /\ n \in Range(states)

\* self.states[next_state_name]: the dict lookup raises KeyError on a missing name
KeyError == "KeyError"

StateNamed_stay(n) == current_state

StateNamed(n) == IF n \in Range(states) THEN n ELSE KeyError

\* the detect() calls of the initial-state loop up to position n
DetectCalls(n) == [i \in 1..n |-> <<"detect", states[i]>>]

-----------------------------------------------------------------------------
\* NetworkRotator: data

ProxyIds == {"p1", "p2"}

\* the pools a rotator is constructed with
Pools == {<<>>, <<"p1">>, <<"p1", "p2">>}

\* RotationTrigger
RATE_LIMIT == "rate_limit"
CAPTCHA == "captcha"
BLOCK == "block"
GEOGRAPHIC == "geographic"
SCHEDULED == "scheduled"
Triggers == {RATE_LIMIT, CAPTCHA, BLOCK, GEOGRAPHIC, SCHEDULED}

\* quarantine(proxy, duration_seconds=3600) as report_failure calls it
BlockQuarantineSeconds == 3600

\* durations of direct quarantine() calls: any int is accepted
Durations == {0, BlockQuarantineSeconds}

\* the times at which calls are made: the start, the moment a quarantine set
\* at the start expires, and one second later
TimePoints == {0, BlockQuarantineSeconds, BlockQuarantineSeconds + 1}

NotQuarantined == -1
Never == -1

FreshMetrics ==
    [total_requests |-> 0, successes |-> 0, failures |-> 0, rate_limits |-> 0,
     captchas |-> 0, blocks |-> 0, last_failure |-> Never, last_success |-> Never]

RECURSIVE SumRequests(_, _)
SumRequests(m, S) ==
    IF S = {} THEN 0
    ELSE LET p == CHOOSE x \in S : TRUE
         IN m[p].total_requests + SumRequests(m, S \ {p})

\* len(self.quarantined), get_metrics()['quarantined_count']
QuarantinedCount(q) == Cardinality({p \in ProxyIds : q[p] # NotQuarantined})

\* [p for p in self.proxies if p not in self.quarantined]
Available_all(q) == proxies

Available(q) == SelectSeq(proxies, LAMBDA p : q[p] = NotQuarantined)

\* _check_quarantine_expiry: drop the entries with expiry < now
CheckQuarantineExpiry_inclusive(q) ==
    [p \in ProxyIds |-> IF q[p] # NotQuarantined /\ q[p] <= now THEN NotQuarantined ELSE q[p]]
CheckQuarantineExpiry(q) ==
    [p \in ProxyIds |-> IF q[p] # NotQuarantined /\ q[p] < now THEN NotQuarantined ELSE q[p]]

\* get_success_rate(proxy) on counters m, as a fraction <<numerator, denominator>>
SuccessRate_pessimistic(m, p) ==
    IF m[p].total_requests = 0
    THEN <<0, 1>>
    ELSE <<m[p].successes, m[p].total_requests>>

SuccessRate(m, p) ==
    IF m[p].total_requests = 0
    THEN <<1, 1>>
    ELSE <<m[p].successes, m[p].total_requests>>

RateLess(a, b) == a[1] * b[2] < b[1] * a[2]

\* max(available, key=get_success_rate): the first element with the largest key
MaxBySuccessRate(m, av) ==
    av[CHOOSE i \in 1..Len(av) :
          /\ \A j \in 1..Len(av) : ~RateLess(SuccessRate(m, av[i]), SuccessRate(m, av[j]))
          /\ \A j \in 1..(i - 1) : RateLess(SuccessRate(m, av[j]), SuccessRate(m, av[i]))]

\* get_proxy() on counters m, quarantine dict q and current proxy cur:
\* the dict and current proxy it leaves, and the value it returns
GetProxyOn(m, q, cur) ==
    LET q1 == IF Available(q) = <<>> THEN CheckQuarantineExpiry(q) ELSE q
        av == Available(q1)
    IN  IF av = <<>>
        THEN [q |-> q1, cur |-> cur, ret |-> None]
        ELSE [q |-> q1, cur |-> MaxBySuccessRate(m, av), ret |-> MaxBySuccessRate(m, av)]

\* rotate() on counters m, quarantine dict q and current proxy cur
RotateOn(m, q, cur) ==
    LET others == SelectSeq(proxies, LAMBDA p : p # cur /\ q[p] = NotQuarantined)
    IN  IF others # <<>>
        THEN [q |-> GetProxyOn(m, q, cur).q, cur |-> GetProxyOn(m, q, cur).ret]
        ELSE IF cur # None /\ q[cur] # NotQuarantined
             THEN [q |-> q, cur |-> None]
             ELSE [q |-> q, cur |-> cur]

\* quarantine(proxy, duration_seconds) on quarantine dict q
QuarantineOn_noop(q, p, d) == q

QuarantineOn(q, p, d) == [q EXCEPT ![p] = now + d]

\* the counters of a proxy after report_failure(proxy, reason)
FailureMetrics_blocks(m, reason) ==
    [m EXCEPT !.total_requests = @ + 1,
              !.failures = @ + 1,
              !.last_failure = now,
              !.blocks = @ + 1]
FailureMetrics(m, reason) ==
    [m EXCEPT !.total_requests = @ + 1,
              !.failures = @ + 1,
              !.last_failure = now,
              !.rate_limits = IF reason = RATE_LIMIT THEN @ + 1 ELSE @,
              !.captchas = IF reason = CAPTCHA THEN @ + 1 ELSE @,
              !.blocks = IF reason = BLOCK THEN @ + 1 ELSE @]

RECURSIVE SumSuccesses(_, _)
SumSuccesses(m, S) ==
    IF S = {} THEN 0
    ELSE LET p == CHOOSE x \in S : TRUE
         IN m[p].successes + SumSuccesses(m, S \ {p})

\* get_metrics()['overall_success_rate']: total_successes / max(1, total_requests)
\* as a fraction <<numerator, denominator>>
OverallSuccessRate_unguarded(m) ==
    <<SumSuccesses(m, ProxyIds), SumRequests(m, ProxyIds)>>
OverallSuccessRate(m) ==
    <<SumSuccesses(m, ProxyIds), Maximum(1, SumRequests(m, ProxyIds))>>

\* reset_metrics(proxy) on counters m; reset_metrics(None) resets every
\* proxy of the pool
ResetMetricsOn(m, p) ==
    [x \in ProxyIds |->
        IF (p = None /\ x \in Range(proxies)) \/ x = p THEN FreshMetrics ELSE m[x]]

\* what rot_call records of a call: the call, its arguments, its return
\* value, and the rotator as the call found it
Call(op, p, t, ret) ==
    [op |-> op, proxy |-> p, trigger |-> t, ret |-> ret,
     current_before |-> current_proxy,
     quarantined_before |-> {x \in ProxyIds : quarantined[x] # NotQuarantined}]

-----------------------------------------------------------------------------
\* BehaviorScaler: data
\* Rates, levels and the fields of a profile handed to the scaler are
\* thousandths of the float: 950 stands for 0.95.

\* typing_cadence=None
NoCadence == <<>>

BehaviorProfile(dr, mm, sb, tc, j) ==
    [delay_range |-> dr, mouse_movement |-> mm, scroll_behavior |-> sb,
     typing_cadence |-> tc, jitter |-> j]

MACHINE_LIKE_PROFILE == BehaviorProfile(<<0, 100>>, FALSE, FALSE, NoCadence, 0)

HUMAN_LIKE_PROFILE == BehaviorProfile(<<1000, 3000>>, TRUE, TRUE, <<50, 150>>, 300)

\* the (min_profile, max_profile) pairs a scaler is constructed with
ProfilePairs ==
    { <<MACHINE_LIKE_PROFILE, HUMAN_LIKE_PROFILE>>,
      <<HUMAN_LIKE_PROFILE, HUMAN_LIKE_PROFILE>>,
      <<HUMAN_LIKE_PROFILE, MACHINE_LIKE_PROFILE>> }

\* success_rate arguments of escalate()
SuccessRates == {500, 700, 875, 900, 950, 970, 1000}

\* adjustment_rate arguments of escalate(): any float is accepted
AdjustmentRates == {-100, 100, 500}

\* level arguments of scale(): any float is accepted
ScaleLevels == {-200, 0, 300, 500, 1000, 1500}

\* cascade_metrics=None, or an empty dict
NoCascadeMetrics ==
    [given |-> FALSE, avg_position |-> 0, xpath_success_rate |-> 1000,
     css_success_rate |-> 1000, text_fallback_rate |-> 0,
     visual_fallback_rate |-> 0]

\* cascade_metrics arguments of escalate(); a key the dict lacks has the
\* default that .get() gives it
CascadeMetricsInputs ==
    {NoCascadeMetrics} \cup
    [given : {TRUE}, avg_position : {0, 600},
     xpath_success_rate : {200, 400, 1000}, css_success_rate : {1000},
     text_fallback_rate : {0, 300}, visual_fallback_rate : {0}]

\* adjusted_success_rate of escalate(), in ten-millionths: the product of a
\* rate in thousandths and a factor in ten-thousandths
AdjustedSuccessRate(success_rate, m) ==
    LET plain == success_rate * 10000
        \* twice primary_selector_rate
        primary_sum == m.xpath_success_rate + m.css_success_rate
        total_fallback_rate == m.text_fallback_rate + m.visual_fallback_rate
        structural == IF primary_sum < 1400
                      THEN success_rate * 8000
                      ELSE plain
        fallback == IF total_fallback_rate > 200
                    THEN success_rate * (10000 - 4 * total_fallback_rate)
                    ELSE structural
        boost == IF primary_sum > 1800 /\ m.avg_position < 100
                 THEN Minimum(10000000, success_rate * 11000)
                 ELSE fallback
        late == IF m.avg_position > 500
                THEN success_rate * (10000 - 3 * m.avg_position)
                ELSE boost
    IN  IF m.given THEN late ELSE plain

\* "very high success": adjusted_success_rate > 0.95
HighSuccess_inclusive(adjusted) == adjusted >= 9500000
HighSuccess(adjusted) == adjusted > 9500000

\* "low success": adjusted_success_rate < 0.7
LowSuccess(adjusted) == adjusted < 7000000

\* max(0.0, self.current_level - adjustment_rate)
Decreased_unclamped(level, adjustment_rate) == level - adjustment_rate
Decreased(level, adjustment_rate) == Maximum(0, level - adjustment_rate)

\* min(1.0, self.current_level + adjustment_rate)
Increased_unclamped(level, adjustment_rate) == level + adjustment_rate
Increased(level, adjustment_rate) == Minimum(1000, level + adjustment_rate)

\* self.current_level after escalate()
EscalatedLevel(level, adjusted, adjustment_rate) ==
    IF HighSuccess(adjusted) THEN Decreased(level, adjustment_rate)
    ELSE IF LowSuccess(adjusted) THEN Increased(level, adjustment_rate)
    ELSE level

\* min_val + (max_val - min_val) * level; the result is in millionths
Interpolate(min_val, max_val, level) == min_val * 1000 + (max_val - min_val) * level

\* scale(level) on a scaler with these two profiles
ScaleOn(minp, maxp, level_arg) ==
    LET level == Maximum(0, Minimum(1000, level_arg))
        typing_cadence ==
            IF minp.typing_cadence # NoCadence /\ maxp.typing_cadence # NoCadence
            THEN << Interpolate(minp.typing_cadence[1], maxp.typing_cadence[1], level),
                    Interpolate(minp.typing_cadence[2], maxp.typing_cadence[2], level) >>
            ELSE IF maxp.typing_cadence # NoCadence
            THEN << Interpolate(0, maxp.typing_cadence[1], level),
                    Interpolate(0, maxp.typing_cadence[2], level) >>
            ELSE NoCadence
    IN  BehaviorProfile(
            << Interpolate(minp.delay_range[1], maxp.delay_range[1], level),
               Interpolate(minp.delay_range[2], maxp.delay_range[2], level) >>,
            IF maxp.mouse_movement THEN level >= 500 ELSE FALSE,
            IF maxp.scroll_behavior THEN level >= 500 ELSE FALSE,
            typing_cadence,
            Interpolate(minp.jitter, maxp.jitter, level))

\* what bs_call records of a call: the call, its arguments, the level the
\* call found, the adjusted rate escalate() computed, and the returned profile
ScalerCall(op, sr, m, ar, level_arg, adjusted, ret) ==
    [op |-> op, success_rate |-> sr, cascade_metrics |-> m,
     adjustment_rate |-> ar, level |-> level_arg,
     level_before |-> current_level, adjusted |-> adjusted, ret |-> ret]

NoProfile == BehaviorProfile(<<0, 0>>, FALSE, FALSE, NoCadence, 0)

-----------------------------------------------------------------------------
\* CascadeExecutor: data

XPATH == "xpath"
CSS == "css"
TEXT == "text"
VISUAL == "visual"

\* the non-empty element lists a driver query can return
ElementLists == {<<"e1">>, <<"e2">>}

\* A selector of the cascade, with what the driver does when it is queried
\* for it: raise, or return `found` (find_elements_*), or have the text in
\* page_source or not (in_page).
CascadeSelector(t, r, f, p) ==
    [selector_type |-> t, raises |-> r, found |-> f, in_page |-> p]

SelectorOutcomes ==
    { CascadeSelector(t, TRUE, <<>>, FALSE) : t \in {XPATH, CSS, TEXT} }
      \cup { CascadeSelector(t, FALSE, f, FALSE) :
                t \in {XPATH, CSS}, f \in ElementLists \cup {<<>>} }
      \cup { CascadeSelector(TEXT, FALSE, <<>>, p) : p \in BOOLEAN }
      \cup { CascadeSelector(VISUAL, FALSE, <<>>, FALSE) }

\* The values execute() and _try_selector() return: None, a list of
\* elements, or True.
ReturnNone == [shape |-> "None", elements |-> <<>>]
ReturnTrue == [shape |-> "True", elements |-> <<>>]
ReturnElements(f) == [shape |-> "list", elements |-> f]
NotReturned == [shape |-> "running", elements |-> <<>>]

\* _try_selector(selector, context) when the driver does not raise
TrySelector(sel) ==
    IF sel.selector_type \in {XPATH, CSS}
    THEN IF sel.found # <<>> THEN ReturnElements(sel.found) ELSE ReturnNone
    ELSE IF sel.selector_type = TEXT
    THEN IF sel.in_page THEN ReturnTrue ELSE ReturnNone
    ELSE ReturnNone

\* _try_selector asks the driver for XPATH, CSS and TEXT selectors only
QueriesDriver(sel) == sel.selector_type \in {XPATH, CSS, TEXT}

\* `if result:` in execute()
Succeeded_never(result) == FALSE
Succeeded(result) == result # ReturnNone

\* `if not driver:` in execute()
DriverMissing_never == FALSE
DriverMissing == ~has_driver

\* `except Exception: continue`: the loop goes on with the next selector
AfterException_abort(i) == Len(selectors) + 1
AfterException(i) == i + 1

\* the driver queries made so far, after _try_selector ran on selector i
QueriesAfter(i) ==
    IF QueriesDriver(selectors[i]) THEN Append(ce_queries, i) ELSE ce_queries

-----------------------------------------------------------------------------
\* CompositeDetector: data

\* what a child detector of a composite does when called; confidences in tenths
CompConfLevels == {0, 3, 9}

CompChildOutcomes ==
    {[raises |-> TRUE, detected |-> FALSE, confidence |-> 0]} \cup
    [raises : {FALSE}, detected : BOOLEAN, confidence : CompConfLevels]

\* logic arguments of CompositeDetector(detectors, logic)
LogicInputs == {"AND", "and", "OR", "or", "xor"}

\* logic.upper()
Upper(l) ==
    CASE l \in {"AND", "and"} -> "AND"
      [] l \in {"OR", "or"} -> "OR"
      [] l = "xor" -> "XOR"

\* all(r.detected for r in results)
AllDetected(rs) == \A i \in 1..Len(rs) : rs[i].detected

\* any(r.detected for r in results)
AnyDetected(rs) == \E i \in 1..Len(rs) : rs[i].detected

\* sum(1 for r in results if r.detected)
MatchedCount(rs) == Cardinality({i \in 1..Len(rs) : rs[i].detected})

\* min(r.confidence for r in results) if results else 0.0
MinConfidence_first(rs) == IF rs = <<>> THEN 0 ELSE rs[1].confidence
MinConfidence(rs) ==
    IF rs = <<>> THEN 0
    ELSE CHOOSE c \in {rs[i].confidence : i \in 1..Len(rs)} :
            \A i \in 1..Len(rs) : c <= rs[i].confidence

\* max(r.confidence for r in results) if results else 0.0
MaxConfidence(rs) ==
    IF rs = <<>> THEN 0
    ELSE CHOOSE c \in {rs[i].confidence : i \in 1..Len(rs)} :
            \A i \in 1..Len(rs) : c >= rs[i].confidence

\* the DetectionResult detect() builds from the children's results
CompositeResult(l, rs) ==
    IF l = "AND"
    THEN DetectionResult(AllDetected(rs), MinConfidence(rs),
                         <<"AND", MatchedCount(rs), Len(rs)>>)
    ELSE DetectionResult(AnyDetected(rs), MaxConfidence(rs),
                         <<"OR", MatchedCount(rs), Len(rs)>>)

-----------------------------------------------------------------------------
\* CascadeMetrics: data
\* position_sum is kept in halves: with cascades of length 1 to 3 every
\* normalized position is 0, 1/2 or 1.

CascadeLengths == {1, 2, 3}

SelectorTypes == {XPATH, CSS, TEXT, VISUAL}

\* position / max(1, cascade_length - 1) if cascade_length > 1 else 0.0
NormalizedPosition_raw(position, cascade_len) == position * 2
NormalizedPosition(position, cascade_len) ==
    IF cascade_len > 1
    THEN (position * 2) \div Maximum(1, cascade_len - 1)
    ELSE 0

\* a float that is the quotient of two counters
Quotient(n, d) == [num |-> n, den |-> d]

\* what get_metrics() returns with zero attempts
ColdStartMetrics_pessimistic ==
    [avg_position |-> Quotient(0, 1),
     text_fallback_rate |-> Quotient(0, 1),
     visual_fallback_rate |-> Quotient(0, 1),
     primary_success_rate |-> Quotient(0, 1),
     overall_success_rate |-> Quotient(0, 1)]
ColdStartMetrics ==
    [avg_position |-> Quotient(0, 1),
     text_fallback_rate |-> Quotient(0, 1),
     visual_fallback_rate |-> Quotient(0, 1),
     primary_success_rate |-> Quotient(1, 1),
     overall_success_rate |-> Quotient(1, 1)]

\* get_metrics() on these counters
GetMetricsOn(attempts, primary, fallback, text, visual, psum) ==
    IF attempts = 0
    THEN ColdStartMetrics
    ELSE LET total_successes == primary + fallback
         IN  [avg_position |-> Quotient(psum, 2 * Maximum(1, total_successes)),
              text_fallback_rate |-> Quotient(text, attempts),
              visual_fallback_rate |-> Quotient(visual, attempts),
              primary_success_rate |-> Quotient(primary, Maximum(1, attempts)),
              overall_success_rate |-> Quotient(total_successes, attempts)]

\* a call that returns nothing
NoMetrics == [avg_position |-> Quotient(0, 0),
              text_fallback_rate |-> Quotient(0, 0),
              visual_fallback_rate |-> Quotient(0, 0),
              primary_success_rate |-> Quotient(0, 0),
              overall_success_rate |-> Quotient(0, 0)]

\* a quotient as the rate in thousandths
Thousandths(q) == (q.num * 1000) \div q.den

\* the dict get_metrics() returned, as escalate() reads it: it has no
\* xpath_success_rate and no css_success_rate key, so .get() gives 1.0
AsCascadeMetrics(gm) ==
    [given |-> TRUE, avg_position |-> Thousandths(gm.avg_position),
     xpath_success_rate |-> 1000, css_success_rate |-> 1000,
     text_fallback_rate |-> Thousandths(gm.text_fallback_rate),
     visual_fallback_rate |-> Thousandths(gm.visual_fallback_rate)]

\* what cm_call records of a call: the call, what it returned, avg_position
\* as get_metrics() would have given it before the call, and the number of
\* record_success / record_failure calls made so far
MetricsCall(op, ret, n) ==
    [op |-> op, ret |-> ret, records |-> n,
     avg_before |-> GetMetricsOn(total_attempts, primary_successes, fallback_successes,
                                 text_fallbacks, visual_fallbacks,
                                 position_sum).avg_position]

-----------------------------------------------------------------------------
\* Workers sharing one rotator or one scaler

Workers == {"w1", "w2"}

\* escalate() arguments of a worker
EscalateArgs(sr, m, ar) ==
    [success_rate |-> sr, cascade_metrics |-> m, adjustment_rate |-> ar]

NoArgs == EscalateArgs(0, NoCascadeMetrics, 0)

NoCounts == [successes |-> 0, failures |-> 0]

\* the calls counted in counts, over the proxies ps
RECURSIVE SumCounts(_, _)
SumCounts(counts, ps) ==
    IF ps = {} THEN 0
    ELSE LET p == CHOOSE x \in ps : TRUE
         IN  counts[p].successes + counts[p].failures + SumCounts(counts, ps \ {p})

-----------------------------------------------------------------------------
\* DOMElementDetector: data

\* what the driver does when it is queried for a selector: it raises, or it
\* returns a list of this many elements
DomSelectorOutcomes == {[raises |-> TRUE, found |-> 0]} \cup [raises : {FALSE}, found : {0, 1, 2}]

\* selector_type arguments: 'xpath' (the default), 'css', and another string,
\* which detect() treats as css
DomSelectorTypes == {"xpath", "css", "id"}

\* the driver method detect() calls for a selector
DomQueryMethod(t) ==
    IF t = "xpath" THEN "find_elements_by_xpath" ELSE "find_elements_by_css_selector"

\* `if elements:` - a non-empty list is truthy
ElementsFound_always(o) == TRUE
ElementsFound(o) == o.found > 0

\* confidence of a positive DOM detection, in tenths
DomConfidence == 9

-----------------------------------------------------------------------------
\* RateLimitedState, BackoffState and LoginState under the executor: data

ErrorStateNames == {"RateLimitedState", "BackoffState", "LoginState"}

\* a numeric key the context lacks
Missing == -1

ErrorKeys == {"rate_limit_attempts", "backoff_seconds", "retry_after", "current_time",
              "previous_state", "status"}

\* the value that stands for a key the dict lacks
NotSet(k) == IF k \in {"previous_state", "status"} THEN Absent ELSE Missing

\* context.get(k, default)
Get(ctx, k, default) == IF ctx[k] = NotSet(k) THEN default ELSE ctx[k]

ErrorContext(attempts, backoff, retry, time, previous, status) ==
    [rate_limit_attempts |-> attempts, backoff_seconds |-> backoff,
     retry_after |-> retry, current_time |-> time,
     previous_state |-> previous, status |-> status]

\* the contexts the executor is constructed with
ErrorInitialContexts ==
    { ErrorContext(a, Missing, r, t, p, Absent) :
        a \in {Missing, 0, 8}, r \in {Missing, 150}, t \in {Missing, 100},
        p \in {Absent, "RateLimitedState", "SearchState"} }

\* min(2 ** attempt_count, 300)
BackoffSeconds_none(attempt_count) == 0
BackoffSeconds(attempt_count) == Minimum(2 ^ attempt_count, 300)

\* the dict execute() of state s returns on context ctx; NotSet for the keys
\* it does not have
ErrorStateExecute(s, ctx) ==
    IF s = "RateLimitedState"
    THEN LET attempt_count == Get(ctx, "rate_limit_attempts", 0) + 1
         IN  ErrorContext(attempt_count, BackoffSeconds(attempt_count),
                          Get(ctx, "current_time", 0) + BackoffSeconds(attempt_count),
                          Missing, Absent, Absent)
    ELSE IF s = "BackoffState"
    THEN ErrorContext(Missing, Missing, Missing, Get(ctx, "retry_after", 0), Absent, Absent)
    ELSE ErrorContext(Missing, Missing, Missing, Missing, Absent, "logged_in")

\* self.context.update(result)
ErrorContextUpdate(ctx, r) == [k \in ErrorKeys |-> IF r[k] # NotSet(k) THEN r[k] ELSE ctx[k]]

\* context.get('previous_state', 'LoginState')
PreviousState(ctx) == Get(ctx, "previous_state", "LoginState")

\* what transition() of state s returns on context ctx
ErrorStateTransition(s, ctx) ==
    IF s = "RateLimitedState"
    THEN IF Get(ctx, "current_time", 0) >= Get(ctx, "retry_after", 0)
         THEN PreviousState(ctx)
         ELSE "BackoffState"
    ELSE IF s = "BackoffState"
    THEN IF Get(ctx, "current_time", Get(ctx, "retry_after", 0)) >= Get(ctx, "retry_after", 0)
         THEN PreviousState(ctx)
         ELSE None
    ELSE IF ctx["status"] = "logged_in" THEN "SearchState" ELSE None

\* BackoffState.detect(context)
BackoffDetects(ctx) == Get(ctx, "current_time", 0) < Get(ctx, "retry_after", 0)

-----------------------------------------------------------------------------
\* Components at rest

\* a cascade detector on which detect() is not called
CDIdle ==
    /\ detectors = <<>>
    /\ min_confidence = 5
    /\ cd_pc = "idle"
    /\ cd_i = 1
    /\ best_result = DetectionResult(FALSE, 0, <<"none_tried", 0>>)
    /\ cd_return = NoReturn
    /\ cd_invoked = <<>>

\* an executor on which run() is not called
ExIdle ==
    /\ states = <<>>
    /\ detect_of = [s \in StateNames |-> FALSE]
    /\ transition_of = [s \in StateNames |-> None]
    /\ context = EmptyMap
    /\ current_state = None
    /\ run_pc = "idle"
    /\ exec_result = [is_none |-> TRUE, map |-> EmptyMap]
    /\ next_state_name = None
    /\ calls = <<>>
    /\ iterations = 0
    /\ initial_context = EmptyMap
    /\ exec_context = EmptyMap
    /\ transition_seen = EmptyMap

\* a rotator that is not used
RotIdle ==
    /\ proxies = <<>>
    /\ proxy_metrics = [p \in ProxyIds |-> FreshMetrics]
    /\ quarantined = [p \in ProxyIds |-> NotQuarantined]
    /\ current_proxy = None
    /\ now = 0
    /\ ticks = 0
    /\ rot_call = [op |-> "init", proxy |-> None, trigger |-> None, ret |-> None,
                   current_before |-> None,
                   quarantined_before |-> {}]

\* a scaler on which nothing is called
BSIdle ==
    /\ min_profile = MACHINE_LIKE_PROFILE
    /\ max_profile = HUMAN_LIKE_PROFILE
    /\ current_level = 0
    /\ escalations = 0
    /\ bs_call = [op |-> "init", success_rate |-> 0,
                  cascade_metrics |-> NoCascadeMetrics, adjustment_rate |-> 0,
                  level |-> 0, level_before |-> 0, adjusted |-> 0,
                  ret |-> NoProfile]

\* a cascade executor on which execute() is not called
CEIdle ==
    /\ selectors = <<>>
    /\ has_driver = FALSE
    /\ ce_pc = "idle"
    /\ ce_i = 1
    /\ ce_return = NotReturned
    /\ ce_tried = <<>>
    /\ ce_queries = <<>>

\* a composite detector on which detect() is not called
CompIdle ==
    /\ comp_detectors = <<>>
    /\ logic = "OR"
    /\ comp_pc = "idle"
    /\ comp_results = <<>>
    /\ comp_return = NoReturn

\* cascade metrics on which nothing is called
CMIdle ==
    /\ total_attempts = 0
    /\ primary_successes = 0
    /\ fallback_successes = 0
    /\ text_fallbacks = 0
    /\ visual_fallbacks = 0
    /\ position_sum = 0
    /\ cascade_length = 0
    /\ recorded = <<>>
    /\ cm_call = [op |-> "init", ret |-> NoMetrics, records |-> 0,
                  avg_before |-> Quotient(0, 1)]

\* no worker shares the rotator
RWIdle ==
    /\ rw_pc = [w \in Workers |-> "idle"]
    /\ rw_proxy = [w \in Workers |-> None]
    /\ rw_reason = [w \in Workers |-> None]
    /\ rw_read = [w \in Workers |-> 0]
    /\ rw_counts = [p \in ProxyIds |-> NoCounts]

\* no worker shares the scaler
SWIdle ==
    /\ sw_pc = [w \in Workers |-> "idle"]
    /\ sw_args = [w \in Workers |-> NoArgs]
    /\ sw_read = [w \in Workers |-> 0]
    /\ sw_start = 0

\* a DOM element detector on which detect() is not called
DomIdle ==
    /\ dom_selectors = <<>>
    /\ dom_selector_type = "xpath"
    /\ dom_driver = FALSE
    /\ dom_pc = "idle"
    /\ dom_i = 1
    /\ dom_return = NoReturn
    /\ dom_queries = <<>>

-----------------------------------------------------------------------------
\* StateMachineExecutor

\* __init__(states, initial_context), then run() is called
ExInit ==
    /\ states \in DistinctSeqs(StateNames, Cardinality(StateNames))
    /\ detect_of \in [StateNames -> BOOLEAN]
    /\ \A s \in StateNames \ Range(states) : ~detect_of[s]
    /\ transition_of \in [StateNames -> StateNames \cup {None}]
    /\ \A s \in StateNames \ Range(states) : transition_of[s] = None
    /\ context \in InitialContexts
    /\ initial_context = context
    /\ current_state = None
    /\ run_pc = "find_initial"
    /\ exec_result = [is_none |-> TRUE, map |-> EmptyMap]
    /\ next_state_name = None
    /\ calls = <<>>
    /\ iterations = 0
    /\ exec_context = EmptyMap
    /\ transition_seen = EmptyMap
    /\ CDIdle
    /\ RotIdle
    /\ BSIdle
    /\ CEIdle
    /\ CompIdle
    /\ CMIdle
    /\ RWIdle
    /\ SWIdle
    /\ DomIdle

\* for state in self.states.values(): if state.detect(...): current_state = state; break
RunFindInitial ==
    /\ run_pc = "find_initial"
    /\ FirstDetecting # 0
    /\ current_state' = states[FirstDetecting]
    /\ calls' = calls \o DetectCalls(FirstDetecting)
    /\ run_pc' = "enter"
    /\ UNCHANGED <<states, detect_of, transition_of, context, exec_result,
                   next_state_name, iterations, initial_context, exec_context,
                   transition_seen>>
    /\ UNCHANGED <<cdVars, rotVars, bsVars, ceVars, compVars, cmVars, rwVars, swVars, domVars>>

\* if not self.current_state: return
RunNoInitialState ==
    /\ run_pc = "find_initial"
    /\ FirstDetecting = 0
    /\ calls' = calls \o DetectCalls(Len(states))
    /\ run_pc' = "done"
    /\ UNCHANGED <<states, detect_of, transition_of, context, current_state,
                   exec_result, next_state_name, iterations, initial_context,
                   exec_context, transition_seen>>
    /\ UNCHANGED <<cdVars, rotVars, bsVars, ceVars, compVars, cmVars, rwVars, swVars, domVars>>

\* self.current_state.enter(self.context)
RunEnter ==
    /\ run_pc = "enter"
    /\ calls' = Append(calls, <<"enter", current_state>>)
    /\ iterations' = iterations + 1
    /\ run_pc' = "execute"
    /\ UNCHANGED <<states, detect_of, transition_of, context, current_state,
                   exec_result, next_state_name, initial_context, exec_context,
                   transition_seen>>
    /\ UNCHANGED <<cdVars, rotVars, bsVars, ceVars, compVars, cmVars, rwVars, swVars, domVars>>

\* result = self.current_state.execute(self.context); if result: context.update(result)
RunExecute ==
    /\ run_pc = "execute"
    /\ \E r \in ExecResults :
         /\ exec_result' = r
         /\ context' = IF Truthy(r) THEN ContextUpdate(context, r) ELSE context
    /\ exec_context' = context
    /\ calls' = Append(calls, <<"execute", current_state>>)
    /\ run_pc' = "transition"
    /\ UNCHANGED <<states, detect_of, transition_of, current_state,
                   next_state_name, iterations, initial_context, transition_seen>>
    /\ UNCHANGED <<cdVars, rotVars, bsVars, ceVars, compVars, cmVars, rwVars, swVars, domVars>>

\* next_state_name = self.current_state.transition(self.context)
RunTransition ==
    /\ run_pc = "transition"
    /\ next_state_name' = transition_of[current_state]
    /\ transition_seen' = context
    /\ calls' = Append(calls, <<"transition", current_state>>)
    /\ run_pc' = "exit"
    /\ UNCHANGED <<states, detect_of, transition_of, context, current_state,
                   exec_result, iterations, initial_context, exec_context>>
    /\ UNCHANGED <<cdVars, rotVars, bsVars, ceVars, compVars, cmVars, rwVars, swVars, domVars>>

\* self.current_state.exit(self.context)
RunExit_skipped ==
    /\ run_pc = "exit"
    /\ run_pc' = "move"
    /\ UNCHANGED <<states, detect_of, transition_of, context, current_state,
                   exec_result, next_state_name, calls, iterations, initial_context,
                   exec_context, transition_seen>>
    /\ UNCHANGED <<cdVars, rotVars, bsVars, ceVars, compVars, cmVars, rwVars, swVars, domVars>>
RunExit ==
    /\ run_pc = "exit"
    /\ calls' = Append(calls, <<"exit", current_state>>)
    /\ run_pc' = "move"
    /\ UNCHANGED <<states, detect_of, transition_of, context, current_state,
                   exec_result, next_state_name, iterations, initial_context,
                   exec_context, transition_seen>>
    /\ UNCHANGED <<cdVars, rotVars, bsVars, ceVars, compVars, cmVars, rwVars, swVars, domVars>>

\* self.current_state = self.states[next_state_name]
RunMoveNext_detecting ==
    /\ run_pc = "move"
    /\ NextIsRegistered(next_state_name)
    /\ iterations < MaxSteps
    /\ current_state' = StateNamed(next_state_name)
    /\ calls' = Append(calls, <<"detect", StateNamed(next_state_name)>>)
    /\ run_pc' = IF detect_of[StateNamed(next_state_name)] THEN "enter" ELSE "done"
    /\ UNCHANGED <<states, detect_of, transition_of, context, exec_result,
                   next_state_name, iterations, initial_context,
                   exec_context, transition_seen>>
    /\ UNCHANGED <<cdVars, rotVars, bsVars, ceVars, compVars, cmVars, rwVars, swVars, domVars>>
RunMoveNext ==
    /\ run_pc = "move"
    /\ NextIsRegistered(next_state_name)
    /\ iterations < MaxSteps
    /\ current_state' = StateNamed(next_state_name)
    /\ run_pc' = IF StateNamed(next_state_name) = KeyError THEN "raised" ELSE "enter"
    /\ UNCHANGED <<states, detect_of, transition_of, context, exec_result,
                   next_state_name, calls, iterations, initial_context,
                   exec_context, transition_seen>>
    /\ UNCHANGED <<cdVars, rotVars, bsVars, ceVars, compVars, cmVars, rwVars, swVars, domVars>>

\* else: self.current_state = None, the while loop ends
RunComplete ==
    /\ run_pc = "move"
    /\ ~NextIsRegistered(next_state_name)
    /\ current_state' = None
    /\ run_pc' = "done"
    /\ UNCHANGED <<states, detect_of, transition_of, context, exec_result,
                   next_state_name, calls, iterations, initial_context,
                   exec_context, transition_seen>>
    /\ UNCHANGED <<cdVars, rotVars, bsVars, ceVars, compVars, cmVars, rwVars, swVars, domVars>>

ExNext ==
    \/ RunFindInitial
    \/ RunNoInitialState
    \/ RunEnter
    \/ RunExecute
    \/ RunTransition
    \/ RunExit
    \/ RunMoveNext
    \/ RunComplete

-----------------------------------------------------------------------------
\* NetworkRotator: operations

\* __init__(proxies)
RotInit ==
    /\ proxies \in Pools
    /\ proxy_metrics = [p \in ProxyIds |-> FreshMetrics]
    /\ quarantined = [p \in ProxyIds |-> NotQuarantined]
    /\ current_proxy = None
    /\ now = 0
    /\ ticks = 0
    /\ rot_call = [op |-> "init", proxy |-> None, trigger |-> None, ret |-> None,
                   current_before |-> None,
                   quarantined_before |-> {}]
    /\ ExIdle
    /\ CDIdle
    /\ BSIdle
    /\ CEIdle
    /\ CompIdle
    /\ CMIdle
    /\ RWIdle
    /\ SWIdle
    /\ DomIdle

GetProxy ==
    /\ quarantined' = GetProxyOn(proxy_metrics, quarantined, current_proxy).q
    /\ current_proxy' = GetProxyOn(proxy_metrics, quarantined, current_proxy).cur
    /\ rot_call' = Call("get_proxy", None, None,
                        GetProxyOn(proxy_metrics, quarantined, current_proxy).ret)
    /\ UNCHANGED <<proxies, proxy_metrics, now, ticks>>
    /\ UNCHANGED <<cdVars, exVars, bsVars, ceVars, compVars, cmVars, rwVars, swVars, domVars>>

ReportSuccess ==
    \E p \in Range(proxies) :
        /\ SumRequests(proxy_metrics, ProxyIds) < MaxRequests
        /\ proxy_metrics' = [proxy_metrics EXCEPT ![p].total_requests = @ + 1,
                                                  ![p].successes = @ + 1,
                                                  ![p].last_success = now]
        /\ rot_call' = Call("report_success", p, None, None)
        /\ UNCHANGED <<proxies, quarantined, current_proxy, now, ticks>>
        /\ UNCHANGED <<cdVars, exVars, bsVars, ceVars, compVars, cmVars, rwVars, swVars, domVars>>

\* report_failure: count the failure; on RATE_LIMIT, CAPTCHA, BLOCK rotate;
\* on BLOCK quarantine the proxy after the rotation
ReportFailure ==
    \E p \in Range(proxies), reason \in Triggers :
        LET m == [proxy_metrics EXCEPT ![p] = FailureMetrics(@, reason)]
            r == RotateOn(m, quarantined, current_proxy)
        IN  /\ SumRequests(proxy_metrics, ProxyIds) < MaxRequests
            /\ proxy_metrics' = m
            /\ IF reason \in {RATE_LIMIT, CAPTCHA, BLOCK}
               THEN /\ current_proxy' = r.cur
                    /\ quarantined' = IF reason = BLOCK
                                      THEN QuarantineOn(r.q, p, BlockQuarantineSeconds)
                                      ELSE r.q
               ELSE UNCHANGED <<current_proxy, quarantined>>
            /\ rot_call' = Call("report_failure", p, reason, None)
            /\ UNCHANGED <<proxies, now, ticks>>
            /\ UNCHANGED <<cdVars, exVars, bsVars, ceVars, compVars, cmVars, rwVars, swVars, domVars>>

\* rotate() called directly
Rotate ==
    /\ current_proxy' = RotateOn(proxy_metrics, quarantined, current_proxy).cur
    /\ quarantined' = RotateOn(proxy_metrics, quarantined, current_proxy).q
    /\ rot_call' = Call("rotate", None, None, None)
    /\ UNCHANGED <<proxies, proxy_metrics, now, ticks>>
    /\ UNCHANGED <<cdVars, exVars, bsVars, ceVars, compVars, cmVars, rwVars, swVars, domVars>>

\* quarantine(proxy, duration_seconds) called directly
Quarantine ==
    \E p \in Range(proxies), d \in Durations :
        /\ quarantined' = QuarantineOn(quarantined, p, d)
        /\ rot_call' = Call("quarantine", p, None, None)
        /\ UNCHANGED <<proxies, proxy_metrics, current_proxy, now, ticks>>
        /\ UNCHANGED <<cdVars, exVars, bsVars, ceVars, compVars, cmVars, rwVars, swVars, domVars>>

\* get_metrics(): aggregates the counters, changes nothing
RotatorGetMetrics ==
    /\ rot_call' = Call("get_metrics", None, None, None)
    /\ UNCHANGED <<proxies, proxy_metrics, quarantined, current_proxy, now, ticks>>
    /\ UNCHANGED <<cdVars, exVars, bsVars, ceVars, compVars, cmVars, rwVars, swVars, domVars>>

\* reset_metrics(proxy) and reset_metrics()
ResetMetrics ==
    \E p \in Range(proxies) \cup {None} :
        /\ proxy_metrics' = ResetMetricsOn(proxy_metrics, p)
        /\ rot_call' = Call("reset_metrics", p, None, None)
        /\ UNCHANGED <<proxies, quarantined, current_proxy, now, ticks>>
        /\ UNCHANGED <<cdVars, exVars, bsVars, ceVars, compVars, cmVars, rwVars, swVars, domVars>>

\* time passes between two calls
Tick ==
    \E t \in TimePoints :
        /\ ticks < MaxTicks
        /\ t > now
        /\ now' = t
        /\ ticks' = ticks + 1
        /\ rot_call' = Call("tick", None, None, None)
        /\ UNCHANGED <<proxies, proxy_metrics, quarantined, current_proxy>>
        /\ UNCHANGED <<cdVars, exVars, bsVars, ceVars, compVars, cmVars, rwVars, swVars, domVars>>

RotNext == GetProxy \/ ReportSuccess \/ ReportFailure \/ Rotate \/ Quarantine \/ Tick

\* the calls of a client that leaves quarantining to report_failure
RotReportingNext == GetProxy \/ ReportSuccess \/ ReportFailure \/ Rotate \/ Tick

\* the calls that write and read the counters
RotCountersNext == ReportSuccess \/ ReportFailure \/ ResetMetrics \/ RotatorGetMetrics

-----------------------------------------------------------------------------
\* CascadeDetector.detect

CDInit ==
    /\ detectors \in SeqsUpTo(ChildOutcomes, MaxDetectors)
    /\ min_confidence \in MinConfLevels
    /\ cd_pc = "loop"
    /\ cd_i = 1
    /\ best_result = DetectionResult(FALSE, 0, <<"none_tried", 0>>)
    /\ cd_return = NoReturn
    /\ cd_invoked = <<>>
    /\ ExIdle
    /\ RotIdle
    /\ BSIdle
    /\ CEIdle
    /\ CompIdle
    /\ CMIdle
    /\ RWIdle
    /\ SWIdle
    /\ DomIdle

\* detector.detect(context) raises: except branch, continue
DetectorRaises_abort ==
    /\ cd_pc = "loop"
    /\ cd_i <= Len(detectors)
    /\ detectors[cd_i].raises
    /\ cd_invoked' = Append(cd_invoked, cd_i)
    /\ cd_return' = best_result
    /\ cd_pc' = "done"
    /\ UNCHANGED <<detectors, min_confidence, cd_i, best_result>>
    /\ UNCHANGED <<exVars, rotVars, bsVars, ceVars, compVars, cmVars, rwVars, swVars, domVars>>
DetectorRaises ==
    /\ cd_pc = "loop"
    /\ cd_i <= Len(detectors)
    /\ detectors[cd_i].raises
    /\ cd_invoked' = Append(cd_invoked, cd_i)
    /\ cd_i' = cd_i + 1
    /\ UNCHANGED <<detectors, min_confidence, cd_pc, best_result, cd_return>>
    /\ UNCHANGED <<exVars, rotVars, bsVars, ceVars, compVars, cmVars, rwVars, swVars, domVars>>

\* positive detection with sufficient confidence: return at once
DetectorAccepted ==
    /\ cd_pc = "loop"
    /\ cd_i <= Len(detectors)
    /\ Accepts(detectors[cd_i])
    /\ cd_invoked' = Append(cd_invoked, cd_i)
    /\ cd_return' = DetectionResult(TRUE, detectors[cd_i].confidence,
                                    <<"cascade_stopped", cd_i>>)
    /\ cd_pc' = "done"
    /\ UNCHANGED <<detectors, min_confidence, cd_i, best_result>>
    /\ UNCHANGED <<exVars, rotVars, bsVars, ceVars, compVars, cmVars, rwVars, swVars, domVars>>

\* result below the bar: track the best result so far
TrackBest_last(best, o, i) == DetectionResult(o.detected, o.confidence, <<"child", i>>)
TrackBest(best, o, i) ==
    IF o.confidence > best.confidence
    THEN DetectionResult(o.detected, o.confidence, <<"child", i>>)
    ELSE best

\* verdict and confidence of detect() on the detectors ds, none of which
\* raises, with best as best_result so far
RECURSIVE CascadeOutcome(_, _)
CascadeOutcome(ds, best) ==
    IF ds = <<>>
    THEN [detected |-> best.detected, confidence |-> best.confidence]
    ELSE IF Accepts(Head(ds))
    THEN [detected |-> TRUE, confidence |-> Head(ds).confidence]
    ELSE CascadeOutcome(Tail(ds), TrackBest(best, Head(ds), 0))

DetectorTracked ==
    /\ cd_pc = "loop"
    /\ cd_i <= Len(detectors)
    /\ ~detectors[cd_i].raises
    /\ ~Accepts(detectors[cd_i])
    /\ cd_invoked' = Append(cd_invoked, cd_i)
    /\ best_result' = TrackBest(best_result, detectors[cd_i], cd_i)
    /\ cd_i' = cd_i + 1
    /\ UNCHANGED <<detectors, min_confidence, cd_pc, cd_return>>
    /\ UNCHANGED <<exVars, rotVars, bsVars, ceVars, compVars, cmVars, rwVars, swVars, domVars>>

\* loop exhausted: return best_result, re-tagged when it is negative
DetectReturnBest ==
    /\ cd_pc = "loop"
    /\ cd_i > Len(detectors)
    /\ cd_return' = IF ~best_result.detected
                    THEN DetectionResult(best_result.detected, best_result.confidence,
                                         <<"cascade_all_failed", best_result.reasoning[2]>>)
                    ELSE best_result
    /\ cd_pc' = "done"
    /\ UNCHANGED <<detectors, min_confidence, cd_i, best_result, cd_invoked>>
    /\ UNCHANGED <<exVars, rotVars, bsVars, ceVars, compVars, cmVars, rwVars, swVars, domVars>>

CDNext == DetectorRaises \/ DetectorAccepted \/ DetectorTracked \/ DetectReturnBest

-----------------------------------------------------------------------------
\* BehaviorScaler: operations

\* __init__(min_profile, max_profile)
BSInit ==
    /\ \E pair \in ProfilePairs :
          /\ min_profile = pair[1]
          /\ max_profile = pair[2]
    /\ current_level = 0
    /\ escalations = 0
    /\ bs_call = [op |-> "init", success_rate |-> 0,
                  cascade_metrics |-> NoCascadeMetrics, adjustment_rate |-> 0,
                  level |-> 0, level_before |-> 0, adjusted |-> 0,
                  ret |-> NoProfile]
    /\ CDIdle
    /\ ExIdle
    /\ RotIdle
    /\ CEIdle
    /\ CompIdle
    /\ CMIdle
    /\ RWIdle
    /\ SWIdle
    /\ DomIdle

\* escalate(success_rate, cascade_metrics, adjustment_rate)
Escalate ==
    /\ escalations < MaxEscalations
    /\ \E sr \in SuccessRates, m \in CascadeMetricsInputs, ar \in AdjustmentRates :
          LET adjusted == AdjustedSuccessRate(sr, m)
              new_level == EscalatedLevel(current_level, adjusted, ar)
          IN  /\ current_level' = new_level
              /\ bs_call' = ScalerCall("escalate", sr, m, ar, 0, adjusted,
                                       ScaleOn(min_profile, max_profile, new_level))
    /\ escalations' = escalations + 1
    /\ UNCHANGED <<min_profile, max_profile>>
    /\ UNCHANGED <<cdVars, exVars, rotVars, ceVars, compVars, cmVars, rwVars, swVars, domVars>>

\* scale(level)
Scale_remembering ==
    /\ \E l \in ScaleLevels :
          /\ bs_call' = ScalerCall("scale", 0, NoCascadeMetrics, 0, l, 0,
                                   ScaleOn(min_profile, max_profile, l))
          /\ current_level' = Maximum(0, Minimum(1000, l))
    /\ UNCHANGED <<min_profile, max_profile, escalations>>
    /\ UNCHANGED <<cdVars, exVars, rotVars, ceVars, compVars, cmVars, rwVars, swVars, domVars>>
Scale ==
    /\ \E l \in ScaleLevels :
          bs_call' = ScalerCall("scale", 0, NoCascadeMetrics, 0, l, 0,
                                ScaleOn(min_profile, max_profile, l))
    /\ UNCHANGED <<min_profile, max_profile, current_level, escalations>>
    /\ UNCHANGED <<cdVars, exVars, rotVars, ceVars, compVars, cmVars, rwVars, swVars, domVars>>

\* get_current_profile()
GetCurrentProfile ==
    /\ bs_call' = ScalerCall("get_current_profile", 0, NoCascadeMetrics, 0, 0, 0,
                             ScaleOn(min_profile, max_profile, current_level))
    /\ UNCHANGED <<min_profile, max_profile, current_level, escalations>>
    /\ UNCHANGED <<cdVars, exVars, rotVars, ceVars, compVars, cmVars, rwVars, swVars, domVars>>

\* reset()
ScalerReset ==
    /\ current_level' = 0
    /\ bs_call' = ScalerCall("reset", 0, NoCascadeMetrics, 0, 0, 0, NoProfile)
    /\ UNCHANGED <<min_profile, max_profile, escalations>>
    /\ UNCHANGED <<cdVars, exVars, rotVars, ceVars, compVars, cmVars, rwVars, swVars, domVars>>

BSNext ==
    \/ Escalate
    \/ Scale
    \/ GetCurrentProfile
    \/ ScalerReset

-----------------------------------------------------------------------------
\* CascadeExecutor.execute

\* __init__(selectors), then execute(context) is called
CEInit ==
    /\ selectors \in SeqsUpTo(SelectorOutcomes, MaxSelectors)
    /\ has_driver \in BOOLEAN
    /\ ce_pc = "running"
    /\ ce_i = 1
    /\ ce_return = NotReturned
    /\ ce_tried = <<>>
    /\ ce_queries = <<>>
    /\ CDIdle
    /\ ExIdle
    /\ RotIdle
    /\ BSIdle
    /\ CompIdle
    /\ CMIdle
    /\ RWIdle
    /\ SWIdle
    /\ DomIdle

\* no driver in the context: return None before the loop
ExecuteNoDriver ==
    /\ ce_pc = "running"
    /\ DriverMissing
    /\ ce_return' = ReturnNone
    /\ ce_pc' = "done"
    /\ UNCHANGED <<selectors, has_driver, ce_i, ce_tried, ce_queries>>
    /\ UNCHANGED <<cdVars, exVars, rotVars, bsVars, compVars, cmVars, rwVars, swVars, domVars>>

\* _try_selector returns a truthy result: return it
SelectorSucceeds ==
    /\ ce_pc = "running"
    /\ ~DriverMissing
    /\ ce_i <= Len(selectors)
    /\ ~selectors[ce_i].raises
    /\ Succeeded(TrySelector(selectors[ce_i]))
    /\ ce_tried' = Append(ce_tried, ce_i)
    /\ ce_queries' = QueriesAfter(ce_i)
    /\ ce_return' = TrySelector(selectors[ce_i])
    /\ ce_pc' = "done"
    /\ UNCHANGED <<selectors, has_driver, ce_i>>
    /\ UNCHANGED <<cdVars, exVars, rotVars, bsVars, compVars, cmVars, rwVars, swVars, domVars>>

\* _try_selector returns None: next selector
SelectorFails ==
    /\ ce_pc = "running"
    /\ ~DriverMissing
    /\ ce_i <= Len(selectors)
    /\ ~selectors[ce_i].raises
    /\ ~Succeeded(TrySelector(selectors[ce_i]))
    /\ ce_tried' = Append(ce_tried, ce_i)
    /\ ce_queries' = QueriesAfter(ce_i)
    /\ ce_i' = ce_i + 1
    /\ UNCHANGED <<selectors, has_driver, ce_pc, ce_return>>
    /\ UNCHANGED <<cdVars, exVars, rotVars, bsVars, compVars, cmVars, rwVars, swVars, domVars>>

\* the driver raises inside _try_selector: except branch, continue
SelectorRaises ==
    /\ ce_pc = "running"
    /\ ~DriverMissing
    /\ ce_i <= Len(selectors)
    /\ selectors[ce_i].raises
    /\ ce_tried' = Append(ce_tried, ce_i)
    /\ ce_queries' = QueriesAfter(ce_i)
    /\ ce_i' = AfterException(ce_i)
    /\ UNCHANGED <<selectors, has_driver, ce_pc, ce_return>>
    /\ UNCHANGED <<cdVars, exVars, rotVars, bsVars, compVars, cmVars, rwVars, swVars, domVars>>

\* the loop ran out of selectors: return None
ExecuteExhausted ==
    /\ ce_pc = "running"
    /\ ~DriverMissing
    /\ ce_i > Len(selectors)
    /\ ce_return' = ReturnNone
    /\ ce_pc' = "done"
    /\ UNCHANGED <<selectors, has_driver, ce_i, ce_tried, ce_queries>>
    /\ UNCHANGED <<cdVars, exVars, rotVars, bsVars, compVars, cmVars, rwVars, swVars, domVars>>

CENext ==
    \/ ExecuteNoDriver
    \/ SelectorSucceeds
    \/ SelectorFails
    \/ SelectorRaises
    \/ ExecuteExhausted

-----------------------------------------------------------------------------
\* CompositeDetector.detect

\* __init__(detectors, logic), then detect(context) is called
CompInit ==
    /\ comp_detectors \in SeqsUpTo(CompChildOutcomes, MaxDetectors)
    /\ \E l \in LogicInputs : logic = Upper(l)
    /\ comp_pc = "collect"
    /\ comp_results = <<>>
    /\ comp_return = NoReturn
    /\ CDIdle
    /\ ExIdle
    /\ RotIdle
    /\ BSIdle
    /\ CEIdle
    /\ CMIdle
    /\ RWIdle
    /\ SWIdle
    /\ DomIdle

\* the comprehension calls the next detector, which returns a result
CompChildReturns ==
    /\ comp_pc = "collect"
    /\ Len(comp_results) < Len(comp_detectors)
    /\ ~comp_detectors[Len(comp_results) + 1].raises
    /\ comp_results' = Append(comp_results, comp_detectors[Len(comp_results) + 1])
    /\ UNCHANGED <<comp_detectors, logic, comp_pc, comp_return>>
    /\ UNCHANGED <<cdVars, exVars, rotVars, bsVars, ceVars, cmVars, rwVars, swVars, domVars>>

\* the next detector raises: nothing catches it, detect() raises
CompChildRaises ==
    /\ comp_pc = "collect"
    /\ Len(comp_results) < Len(comp_detectors)
    /\ comp_detectors[Len(comp_results) + 1].raises
    /\ comp_pc' = "raised"
    /\ UNCHANGED <<comp_detectors, logic, comp_results, comp_return>>
    /\ UNCHANGED <<cdVars, exVars, rotVars, bsVars, ceVars, cmVars, rwVars, swVars, domVars>>

\* every detector has returned: combine the results
CompReturn ==
    /\ comp_pc = "collect"
    /\ Len(comp_results) = Len(comp_detectors)
    /\ comp_return' = CompositeResult(logic, comp_results)
    /\ comp_pc' = "done"
    /\ UNCHANGED <<comp_detectors, logic, comp_results>>
    /\ UNCHANGED <<cdVars, exVars, rotVars, bsVars, ceVars, cmVars, rwVars, swVars, domVars>>

CompNext ==
    \/ CompChildReturns
    \/ CompChildRaises
    \/ CompReturn

-----------------------------------------------------------------------------
\* CascadeMetrics: operations

\* __init__()
CMInit ==
    /\ total_attempts = 0
    /\ primary_successes = 0
    /\ fallback_successes = 0
    /\ text_fallbacks = 0
    /\ visual_fallbacks = 0
    /\ position_sum = 0
    /\ cascade_length = 0
    /\ recorded = <<>>
    /\ cm_call = [op |-> "init", ret |-> NoMetrics, records |-> 0,
                  avg_before |-> Quotient(0, 1)]
    /\ CDIdle
    /\ ExIdle
    /\ RotIdle
    /\ BSIdle
    /\ CEIdle
    /\ CompIdle
    /\ RWIdle
    /\ SWIdle
    /\ DomIdle

\* record_success(position, selector_type, cascade_length), for a position
\* inside the cascade
RecordSuccess ==
    /\ cm_call.records < MaxRecords
    /\ \E cascade_len \in CascadeLengths, t \in SelectorTypes :
       \E position \in 0..(cascade_len - 1) :
          /\ total_attempts' = total_attempts + 1
          /\ cascade_length' = cascade_len
          /\ primary_successes' = IF position = 0 THEN primary_successes + 1
                                  ELSE primary_successes
          /\ fallback_successes' = IF position = 0 THEN fallback_successes
                                   ELSE fallback_successes + 1
          /\ position_sum' = position_sum + NormalizedPosition(position, cascade_len)
          /\ text_fallbacks' = IF t = TEXT THEN text_fallbacks + 1 ELSE text_fallbacks
          /\ visual_fallbacks' = IF t = VISUAL THEN visual_fallbacks + 1
                                 ELSE visual_fallbacks
          /\ recorded' = Append(recorded, <<position, cascade_len>>)
    /\ cm_call' = MetricsCall("record_success", NoMetrics, cm_call.records + 1)
    /\ UNCHANGED <<cdVars, exVars, rotVars, bsVars, ceVars, compVars, rwVars, swVars, domVars>>

\* record_failure()
RecordFailure ==
    /\ cm_call.records < MaxRecords
    /\ total_attempts' = total_attempts + 1
    /\ cm_call' = MetricsCall("record_failure", NoMetrics, cm_call.records + 1)
    /\ UNCHANGED <<primary_successes, fallback_successes, text_fallbacks,
                   visual_fallbacks, position_sum, cascade_length, recorded>>
    /\ UNCHANGED <<cdVars, exVars, rotVars, bsVars, ceVars, compVars, rwVars, swVars, domVars>>

\* get_metrics()
GetMetrics ==
    /\ cm_call' = MetricsCall("get_metrics",
                              GetMetricsOn(total_attempts, primary_successes,
                                           fallback_successes, text_fallbacks,
                                           visual_fallbacks, position_sum),
                              cm_call.records)
    /\ UNCHANGED <<total_attempts, primary_successes, fallback_successes,
                   text_fallbacks, visual_fallbacks, position_sum, cascade_length,
                   recorded>>
    /\ UNCHANGED <<cdVars, exVars, rotVars, bsVars, ceVars, compVars, rwVars, swVars, domVars>>

\* reset()
MetricsReset ==
    /\ total_attempts' = 0
    /\ primary_successes' = 0
    /\ fallback_successes' = 0
    /\ text_fallbacks' = 0
    /\ visual_fallbacks' = 0
    /\ position_sum' = 0
    /\ cascade_length' = 0
    /\ recorded' = <<>>
    /\ cm_call' = MetricsCall("reset", NoMetrics, cm_call.records)
    /\ UNCHANGED <<cdVars, exVars, rotVars, bsVars, ceVars, compVars, rwVars, swVars, domVars>>

CMNext ==
    \/ RecordSuccess
    \/ RecordFailure
    \/ GetMetrics
    \/ MetricsReset

-----------------------------------------------------------------------------
\* A NetworkRotator shared by the workers. The rotator has no lock: a
\* worker's report_success / report_failure call is a sequence of reads and
\* writes of the shared metrics, and the calls of two workers interleave
\* between any two of them.

\* NetworkRotator(proxies), handed to every worker
RWInit ==
    /\ proxies \in Pools \ {<<>>}
    /\ proxy_metrics = [p \in ProxyIds |-> FreshMetrics]
    /\ quarantined = [p \in ProxyIds |-> NotQuarantined]
    /\ current_proxy = None
    /\ now = 0
    /\ ticks = 0
    /\ rot_call = [op |-> "init", proxy |-> None, trigger |-> None, ret |-> None,
                   current_before |-> None,
                   quarantined_before |-> {}]
    /\ rw_pc = [w \in Workers |-> "idle"]
    /\ rw_proxy = [w \in Workers |-> None]
    /\ rw_reason = [w \in Workers |-> None]
    /\ rw_read = [w \in Workers |-> 0]
    /\ rw_counts = [p \in ProxyIds |-> NoCounts]
    /\ CDIdle
    /\ ExIdle
    /\ BSIdle
    /\ CEIdle
    /\ CompIdle
    /\ CMIdle
    /\ SWIdle
    /\ DomIdle

\* worker w calls report_success(p), or report_failure(p, reason), and reads
\* metrics['total_requests']
WorkerBegins(w) ==
    /\ rw_pc[w] = "idle"
    /\ SumCounts(rw_counts, ProxyIds) < MaxRequests
    /\ \E p \in Range(proxies), reason \in Triggers \cup {None} :
          /\ rw_proxy' = [rw_proxy EXCEPT ![w] = p]
          /\ rw_reason' = [rw_reason EXCEPT ![w] = reason]
          /\ rw_counts' = [rw_counts EXCEPT ![p] =
                              IF reason = None
                              THEN [@ EXCEPT !.successes = @ + 1]
                              ELSE [@ EXCEPT !.failures = @ + 1]]
          /\ rw_read' = [rw_read EXCEPT ![w] = proxy_metrics[p].total_requests]
    /\ rw_pc' = [rw_pc EXCEPT ![w] = "write_total"]
    /\ UNCHANGED rotVars
    /\ UNCHANGED <<cdVars, exVars, bsVars, ceVars, compVars, cmVars, swVars, domVars>>

\* metrics['total_requests'] = the value read + 1
WorkerWritesTotal(w) ==
    /\ rw_pc[w] = "write_total"
    /\ proxy_metrics' = [proxy_metrics EXCEPT ![rw_proxy[w]].total_requests = rw_read[w] + 1]
    /\ rw_pc' = [rw_pc EXCEPT ![w] = "read_count"]
    /\ UNCHANGED <<proxies, quarantined, current_proxy, now, ticks, rot_call>>
    /\ UNCHANGED <<rw_proxy, rw_reason, rw_read, rw_counts>>
    /\ UNCHANGED <<cdVars, exVars, bsVars, ceVars, compVars, cmVars, swVars, domVars>>

\* read metrics['successes'] (report_success) or metrics['failures']
WorkerReadsCount(w) ==
    /\ rw_pc[w] = "read_count"
    /\ rw_read' = [rw_read EXCEPT ![w] =
                      IF rw_reason[w] = None
                      THEN proxy_metrics[rw_proxy[w]].successes
                      ELSE proxy_metrics[rw_proxy[w]].failures]
    /\ rw_pc' = [rw_pc EXCEPT ![w] = "write_count"]
    /\ UNCHANGED rotVars
    /\ UNCHANGED <<rw_proxy, rw_reason, rw_counts>>
    /\ UNCHANGED <<cdVars, exVars, bsVars, ceVars, compVars, cmVars, swVars, domVars>>

\* metrics['successes'] or metrics['failures'] = the value read + 1
WorkerWritesCount(w) ==
    /\ rw_pc[w] = "write_count"
    /\ proxy_metrics' =
          IF rw_reason[w] = None
          THEN [proxy_metrics EXCEPT ![rw_proxy[w]].successes = rw_read[w] + 1]
          ELSE [proxy_metrics EXCEPT ![rw_proxy[w]].failures = rw_read[w] + 1]
    /\ rw_pc' = [rw_pc EXCEPT ![w] = "stamp"]
    /\ UNCHANGED <<proxies, quarantined, current_proxy, now, ticks, rot_call>>
    /\ UNCHANGED <<rw_proxy, rw_reason, rw_read, rw_counts>>
    /\ UNCHANGED <<cdVars, exVars, bsVars, ceVars, compVars, cmVars, swVars, domVars>>

\* metrics['last_success'] = datetime.utcnow(): report_success returns
WorkerEndsSuccess(w) ==
    /\ rw_pc[w] = "stamp"
    /\ rw_reason[w] = None
    /\ proxy_metrics' = [proxy_metrics EXCEPT ![rw_proxy[w]].last_success = now]
    /\ rw_pc' = [rw_pc EXCEPT ![w] = "idle"]
    /\ UNCHANGED <<proxies, quarantined, current_proxy, now, ticks, rot_call>>
    /\ UNCHANGED <<rw_proxy, rw_reason, rw_read, rw_counts>>
    /\ UNCHANGED <<cdVars, exVars, bsVars, ceVars, compVars, cmVars, swVars, domVars>>

\* the rest of report_failure, taken in one step: last_failure, the counter
\* of the failure type, rotate() and quarantine()
WorkerEndsFailure(w) ==
    /\ rw_pc[w] = "stamp"
    /\ rw_reason[w] # None
    /\ LET p == rw_proxy[w]
           reason == rw_reason[w]
           m == [proxy_metrics EXCEPT
                    ![p].last_failure = now,
                    ![p].rate_limits = IF reason = RATE_LIMIT THEN @ + 1 ELSE @,
                    ![p].captchas = IF reason = CAPTCHA THEN @ + 1 ELSE @,
                    ![p].blocks = IF reason = BLOCK THEN @ + 1 ELSE @]
           r == RotateOn(m, quarantined, current_proxy)
       IN  /\ proxy_metrics' = m
           /\ IF reason \in {RATE_LIMIT, CAPTCHA, BLOCK}
              THEN /\ current_proxy' = r.cur
                   /\ quarantined' = IF reason = BLOCK
                                     THEN QuarantineOn(r.q, p, BlockQuarantineSeconds)
                                     ELSE r.q
              ELSE UNCHANGED <<current_proxy, quarantined>>
    /\ rw_pc' = [rw_pc EXCEPT ![w] = "idle"]
    /\ UNCHANGED <<proxies, now, ticks, rot_call>>
    /\ UNCHANGED <<rw_proxy, rw_reason, rw_read, rw_counts>>
    /\ UNCHANGED <<cdVars, exVars, bsVars, ceVars, compVars, cmVars, swVars, domVars>>

RWNext ==
    \E w \in Workers :
        \/ WorkerBegins(w)
        \/ WorkerWritesTotal(w)
        \/ WorkerReadsCount(w)
        \/ WorkerWritesCount(w)
        \/ WorkerEndsSuccess(w)
        \/ WorkerEndsFailure(w)

-----------------------------------------------------------------------------
\* BehaviorScaler shared by workers: escalate, one statement at a time

\* __init__(MACHINE_LIKE_PROFILE, HUMAN_LIKE_PROFILE); no worker has called
SWInit ==
    /\ min_profile = MACHINE_LIKE_PROFILE
    /\ max_profile = HUMAN_LIKE_PROFILE
    /\ current_level = 0
    /\ escalations = 0
    /\ bs_call = [op |-> "init", success_rate |-> 0,
                  cascade_metrics |-> NoCascadeMetrics, adjustment_rate |-> 0,
                  level |-> 0, level_before |-> 0, adjusted |-> 0,
                  ret |-> NoProfile]
    /\ SWIdle
    /\ DomIdle
    /\ CDIdle
    /\ ExIdle
    /\ RotIdle
    /\ CEIdle
    /\ CompIdle
    /\ CMIdle
    /\ RWIdle

\* the adjusted success rate of worker w's call (cascade_metrics is None)
WorkerAdjusted(w) ==
    AdjustedSuccessRate(sw_args[w].success_rate, sw_args[w].cascade_metrics)

\* escalate(success_rate, adjustment_rate=...) called by the owner before
\* the workers start: the whole call, alone on the scaler
OwnerEscalates ==
    /\ \A w \in Workers : sw_pc[w] = "idle"
    /\ escalations < MaxEscalations
    /\ \E sr \in SuccessRates, ar \in AdjustmentRates :
          LET adjusted == AdjustedSuccessRate(sr, NoCascadeMetrics)
              new_level == EscalatedLevel(current_level, adjusted, ar)
          IN  /\ current_level' = new_level
              /\ sw_start' = new_level
              /\ bs_call' = ScalerCall("escalate", sr, NoCascadeMetrics, ar, 0, adjusted,
                                       ScaleOn(min_profile, max_profile, new_level))
    /\ escalations' = escalations + 1
    /\ UNCHANGED <<min_profile, max_profile, sw_pc, sw_args, sw_read>>
    /\ UNCHANGED <<cdVars, exVars, rotVars, ceVars, compVars, cmVars, rwVars, domVars>>

\* worker w calls escalate(success_rate, adjustment_rate=...) once and
\* computes adjusted_success_rate; in the medium band it goes to the return
WorkerCalls(w) ==
    /\ sw_pc[w] = "idle"
    /\ \E sr \in SuccessRates, ar \in AdjustmentRates :
          LET adjusted == AdjustedSuccessRate(sr, NoCascadeMetrics)
          IN  /\ sw_args' = [sw_args EXCEPT ![w] = EscalateArgs(sr, NoCascadeMetrics, ar)]
              /\ sw_pc' = [sw_pc EXCEPT ![w] =
                              IF HighSuccess(adjusted) \/ LowSuccess(adjusted)
                              THEN "adjusting" ELSE "returning"]
    /\ UNCHANGED <<sw_read, sw_start>>
    /\ UNCHANGED <<cdVars, exVars, rotVars, bsVars, ceVars, compVars, cmVars, rwVars, domVars>>

\* the operand self.current_level - adjustment_rate (or +) is evaluated:
\* self.current_level is read, then max() or min() is called
WorkerReadsLevel(w) ==
    /\ sw_pc[w] = "adjusting"
    /\ sw_read' = [sw_read EXCEPT ![w] = current_level]
    /\ sw_pc' = [sw_pc EXCEPT ![w] = "storing"]
    /\ UNCHANGED <<sw_args, sw_start>>
    /\ UNCHANGED <<cdVars, exVars, rotVars, bsVars, ceVars, compVars, cmVars, rwVars, domVars>>

\* self.current_level = max(0.0, ...) or min(1.0, ...) of the value read
WorkerWritesLevel(w) ==
    /\ sw_pc[w] = "storing"
    /\ current_level' =
          IF HighSuccess(WorkerAdjusted(w))
          THEN Decreased(sw_read[w], sw_args[w].adjustment_rate)
          ELSE Increased(sw_read[w], sw_args[w].adjustment_rate)
    /\ sw_pc' = [sw_pc EXCEPT ![w] = "returning"]
    /\ UNCHANGED <<min_profile, max_profile, escalations, bs_call>>
    /\ UNCHANGED <<sw_args, sw_read, sw_start>>
    /\ UNCHANGED <<cdVars, exVars, rotVars, ceVars, compVars, cmVars, rwVars, domVars>>

\* return self.scale(self.current_level)
WorkerReturns(w) ==
    /\ sw_pc[w] = "returning"
    /\ bs_call' = ScalerCall("escalate", sw_args[w].success_rate,
                             sw_args[w].cascade_metrics, sw_args[w].adjustment_rate,
                             0, WorkerAdjusted(w),
                             ScaleOn(min_profile, max_profile, current_level))
    /\ sw_pc' = [sw_pc EXCEPT ![w] = "done"]
    /\ UNCHANGED <<min_profile, max_profile, current_level, escalations>>
    /\ UNCHANGED <<sw_args, sw_read, sw_start>>
    /\ UNCHANGED <<cdVars, exVars, rotVars, ceVars, compVars, cmVars, rwVars, domVars>>

SWNext ==
    \/ OwnerEscalates
    \/ \E w \in Workers :
          \/ WorkerCalls(w)
          \/ WorkerReadsLevel(w)
          \/ WorkerWritesLevel(w)
          \/ WorkerReturns(w)

-----------------------------------------------------------------------------
\* DOMElementDetector.detect

\* __init__(selectors, selector_type), then detect(context) is called
DomInit ==
    /\ dom_selectors \in SeqsUpTo(DomSelectorOutcomes, MaxSelectors)
    /\ dom_selector_type \in DomSelectorTypes
    /\ dom_driver \in BOOLEAN
    /\ dom_pc = "running"
    /\ dom_i = 1
    /\ dom_return = NoReturn
    /\ dom_queries = <<>>
    /\ CDIdle
    /\ ExIdle
    /\ RotIdle
    /\ BSIdle
    /\ CEIdle
    /\ CompIdle
    /\ CMIdle
    /\ RWIdle
    /\ SWIdle

\* `if not driver:` return a negative result before the loop
DomNoDriver ==
    /\ dom_pc = "running"
    /\ ~dom_driver
    /\ dom_return' = DetectionResult(FALSE, 0, <<"no_driver", 0>>)
    /\ dom_pc' = "done"
    /\ UNCHANGED <<dom_selectors, dom_selector_type, dom_driver, dom_i, dom_queries>>
    /\ UNCHANGED <<cdVars, exVars, rotVars, bsVars, ceVars, compVars, cmVars, rwVars, swVars>>

\* the driver returns elements for the selector: return a positive result
DomSelectorMatches ==
    /\ dom_pc = "running"
    /\ dom_driver
    /\ dom_i <= Len(dom_selectors)
    /\ ~dom_selectors[dom_i].raises
    /\ ElementsFound(dom_selectors[dom_i])
    /\ dom_queries' = Append(dom_queries, <<DomQueryMethod(dom_selector_type), dom_i>>)
    /\ dom_return' = DetectionResult(TRUE, DomConfidence,
                                     <<"found", dom_selectors[dom_i].found, dom_i>>)
    /\ dom_pc' = "done"
    /\ UNCHANGED <<dom_selectors, dom_selector_type, dom_driver, dom_i>>
    /\ UNCHANGED <<cdVars, exVars, rotVars, bsVars, ceVars, compVars, cmVars, rwVars, swVars>>

\* the driver returns an empty list: next selector
DomSelectorEmpty ==
    /\ dom_pc = "running"
    /\ dom_driver
    /\ dom_i <= Len(dom_selectors)
    /\ ~dom_selectors[dom_i].raises
    /\ ~ElementsFound(dom_selectors[dom_i])
    /\ dom_queries' = Append(dom_queries, <<DomQueryMethod(dom_selector_type), dom_i>>)
    /\ dom_i' = dom_i + 1
    /\ UNCHANGED <<dom_selectors, dom_selector_type, dom_driver, dom_pc, dom_return>>
    /\ UNCHANGED <<cdVars, exVars, rotVars, bsVars, ceVars, compVars, cmVars, rwVars, swVars>>

\* the driver raises: except Exception, continue
DomSelectorRaises ==
    /\ dom_pc = "running"
    /\ dom_driver
    /\ dom_i <= Len(dom_selectors)
    /\ dom_selectors[dom_i].raises
    /\ dom_queries' = Append(dom_queries, <<DomQueryMethod(dom_selector_type), dom_i>>)
    /\ dom_i' = dom_i + 1
    /\ UNCHANGED <<dom_selectors, dom_selector_type, dom_driver, dom_pc, dom_return>>
    /\ UNCHANGED <<cdVars, exVars, rotVars, bsVars, ceVars, compVars, cmVars, rwVars, swVars>>

\* the loop ran out of selectors: return a negative result
DomExhausted ==
    /\ dom_pc = "running"
    /\ dom_driver
    /\ dom_i > Len(dom_selectors)
    /\ dom_return' = DetectionResult(FALSE, 0, <<"no_elements", 0>>)
    /\ dom_pc' = "done"
    /\ UNCHANGED <<dom_selectors, dom_selector_type, dom_driver, dom_i, dom_queries>>
    /\ UNCHANGED <<cdVars, exVars, rotVars, bsVars, ceVars, compVars, cmVars, rwVars, swVars>>

DomNext ==
    \/ DomNoDriver
    \/ DomSelectorMatches
    \/ DomSelectorEmpty
    \/ DomSelectorRaises
    \/ DomExhausted

-----------------------------------------------------------------------------
\* StateMachineExecutor.run over RateLimitedState, BackoffState, LoginState

\* __init__(states, initial_context) with some of the three states, then
\* run() is called; what the cascades of RateLimitedState and LoginState
\* detect depends on the page
ErrInit ==
    /\ states \in DistinctSeqs(ErrorStateNames, Cardinality(ErrorStateNames))
    /\ context \in ErrorInitialContexts
    /\ \E rate_limited, login \in BOOLEAN :
          detect_of = [s \in ErrorStateNames |->
                          IF s \notin Range(states) THEN FALSE
                          ELSE IF s = "RateLimitedState" THEN rate_limited
                          ELSE IF s = "LoginState" THEN login
                          ELSE BackoffDetects(context)]
    /\ transition_of = [s \in ErrorStateNames |-> None]
    /\ initial_context = context
    /\ current_state = None
    /\ run_pc = "find_initial"
    /\ exec_result = context
    /\ next_state_name = None
    /\ calls = <<>>
    /\ iterations = 0
    /\ exec_context = context
    /\ transition_seen = context
    /\ CDIdle
    /\ RotIdle
    /\ BSIdle
    /\ CEIdle
    /\ CompIdle
    /\ CMIdle
    /\ RWIdle
    /\ SWIdle
    /\ DomIdle

\* result = self.current_state.execute(self.context); the dicts these states
\* return are not empty: self.context.update(result)
ErrRunExecute ==
    /\ run_pc = "execute"
    /\ exec_result' = ErrorStateExecute(current_state, context)
    /\ context' = ErrorContextUpdate(context, ErrorStateExecute(current_state, context))
    /\ exec_context' = context
    /\ calls' = Append(calls, <<"execute", current_state>>)
    /\ run_pc' = "transition"
    /\ UNCHANGED <<states, detect_of, transition_of, current_state,
                   next_state_name, iterations, initial_context, transition_seen>>
    /\ UNCHANGED <<cdVars, rotVars, bsVars, ceVars, compVars, cmVars, rwVars, swVars, domVars>>

\* next_state_name = self.current_state.transition(self.context)
ErrRunTransition ==
    /\ run_pc = "transition"
    /\ next_state_name' = ErrorStateTransition(current_state, context)
    /\ transition_seen' = context
    /\ calls' = Append(calls, <<"transition", current_state>>)
    /\ run_pc' = "exit"
    /\ UNCHANGED <<states, detect_of, transition_of, context, current_state,
                   exec_result, iterations, initial_context, exec_context>>
    /\ UNCHANGED <<cdVars, rotVars, bsVars, ceVars, compVars, cmVars, rwVars, swVars, domVars>>

ErrNext ==
    \/ RunFindInitial
    \/ RunNoInitialState
    \/ RunEnter
    \/ ErrRunExecute
    \/ ErrRunTransition
    \/ RunExit
    \/ RunMoveNext
    \/ RunComplete

-----------------------------------------------------------------------------
\* A BehaviorScaler fed by a CascadeMetrics that records failed attempts

\* BehaviorScaler(min_profile, max_profile) and CascadeMetrics()
FeedInit ==
    /\ \E pair \in ProfilePairs :
          /\ min_profile = pair[1]
          /\ max_profile = pair[2]
    /\ current_level = 0
    /\ escalations = 0
    /\ bs_call = [op |-> "init", success_rate |-> 0,
                  cascade_metrics |-> NoCascadeMetrics, adjustment_rate |-> 0,
                  level |-> 0, level_before |-> 0, adjusted |-> 0,
                  ret |-> NoProfile]
    /\ total_attempts = 0
    /\ primary_successes = 0
    /\ fallback_successes = 0
    /\ text_fallbacks = 0
    /\ visual_fallbacks = 0
    /\ position_sum = 0
    /\ cascade_length = 0
    /\ recorded = <<>>
    /\ cm_call = [op |-> "init", ret |-> NoMetrics, records |-> 0,
                  avg_before |-> Quotient(0, 1)]
    /\ CDIdle
    /\ ExIdle
    /\ RotIdle
    /\ CEIdle
    /\ CompIdle
    /\ RWIdle
    /\ SWIdle
    /\ DomIdle

\* scaler.escalate(success_rate, metrics.get_metrics()): adjustment_rate has
\* its default, 0.1
EscalateOnMetrics ==
    /\ escalations < MaxEscalations
    /\ \E sr \in SuccessRates :
          LET gm == GetMetricsOn(total_attempts, primary_successes,
                                 fallback_successes, text_fallbacks,
                                 visual_fallbacks, position_sum)
              m == AsCascadeMetrics(gm)
              adjusted == AdjustedSuccessRate(sr, m)
              new_level == EscalatedLevel(current_level, adjusted, 100)
          IN  /\ current_level' = new_level
              /\ bs_call' = ScalerCall("escalate", sr, m, 100, 0, adjusted,
                                       ScaleOn(min_profile, max_profile, new_level))
              /\ cm_call' = MetricsCall("get_metrics", gm, cm_call.records)
    /\ escalations' = escalations + 1
    /\ UNCHANGED <<min_profile, max_profile>>
    /\ UNCHANGED <<total_attempts, primary_successes, fallback_successes,
                   text_fallbacks, visual_fallbacks, position_sum, cascade_length,
                   recorded>>
    /\ UNCHANGED <<cdVars, exVars, rotVars, ceVars, compVars, rwVars, swVars, domVars>>

FeedNext ==
    \/ RecordFailure
    \/ MetricsReset
    \/ EscalateOnMetrics

-----------------------------------------------------------------------------
\* Specifications, one per component

SpecDetector == CDInit /\ [][CDNext]_vars

SpecExecutor == ExInit /\ [][ExNext]_vars

SpecRotator == RotInit /\ [][RotNext]_vars

SpecRotatorReporting == RotInit /\ [][RotReportingNext]_vars

SpecRotatorCounters == RotInit /\ [][RotCountersNext]_vars

SpecScaler == BSInit /\ [][BSNext]_vars

SpecCascade == CEInit /\ [][CENext]_vars

SpecComposite == CompInit /\ [][CompNext]_vars

SpecMetrics == CMInit /\ [][CMNext]_vars

SpecSharedRotator == RWInit /\ [][RWNext]_vars

SpecSharedScaler == SWInit /\ [][SWNext]_vars

SpecDomDetector == DomInit /\ [][DomNext]_vars

SpecErrorStates == ErrInit /\ [][ErrNext]_vars

SpecFeed == FeedInit /\ [][FeedNext]_vars

-----------------------------------------------------------------------------
\* Properties of CascadeDetector.detect

\* child i returned detected=true with confidence >= min_confidence
Qualifies(i) ==
    /\ ~detectors[i].raises
    /\ detectors[i].detected
    /\ detectors[i].confidence >= min_confidence

IsFirstQualifying(i) ==
    /\ i \in 1..Len(detectors)
    /\ Qualifies(i)
    /\ \A j \in 1..(i - 1) : ~Qualifies(j)

\* C1: if detector i is the first whose result has detected=true and
\* confidence >= min_confidence, detect returns detected=true with exactly
\* detector i's confidence, and no detector after position i is ever invoked.
C1_FirstQualifyingWins ==
    \A i \in 1..Len(detectors) :
        IsFirstQualifying(i) =>
            /\ \A k \in 1..Len(cd_invoked) : cd_invoked[k] <= i
            /\ cd_pc = "done" =>
                  /\ cd_return.detected = TRUE
                  /\ cd_return.confidence = detectors[i].confidence

\* a finished call that stopped at a detector in the middle of the list,
\* after a positive result below the bar, with detectors left untried
C1_Witness ==
    /\ cd_pc = "done"
    /\ \E i \in 2..(Len(detectors) - 1) :
          /\ IsFirstQualifying(i)
          /\ detectors[i].confidence = min_confidence
          /\ detectors[1].detected /\ ~detectors[1].raises
          /\ cd_invoked = <<1, i>> \/ cd_invoked = <<1, 2, i>>

\* child i returned a result
ChildReturned(i) == ~detectors[i].raises

\* C20: if no detector's result qualifies, detect returns the verdict and
\* the confidence of the highest-confidence result among the results the
\* detectors returned.
C20_ReturnsHighestConfidenceChild ==
    ( /\ cd_pc = "done"
      /\ \A i \in 1..Len(detectors) : ~Qualifies(i)
      /\ \E i \in 1..Len(detectors) : ChildReturned(i) ) =>
        \E i \in 1..Len(detectors) :
            /\ ChildReturned(i)
            /\ \A j \in 1..Len(detectors) :
                  ChildReturned(j) => detectors[j].confidence <= detectors[i].confidence
            /\ cd_return.detected = detectors[i].detected
            /\ cd_return.confidence = detectors[i].confidence

\* the cascade with the raising detectors removed
WithoutRaisers == SelectSeq(detectors, LAMBDA d : ~d.raises)

\* C21: a detector that raises is skipped: the detectors after it are still
\* tried, in order, and detect returns the verdict and the confidence that
\* the same cascade without the raising detectors returns.
C21_RaisingDetectorSkipped ==
    /\ \A k \in 1..Len(cd_invoked) : cd_invoked[k] = k
    /\ cd_pc = "done" =>
          /\ [detected |-> cd_return.detected, confidence |-> cd_return.confidence]
                = CascadeOutcome(WithoutRaisers,
                                 DetectionResult(FALSE, 0, <<"none_tried", 0>>))
          /\ \A j \in 1..(Len(detectors) - 1) :
                (detectors[j].raises /\ \A k \in 1..(j - 1) : ~Qualifies(k)) =>
                    Len(cd_invoked) >= j + 1

\* a finished call whose second detector raised, after a first result with
\* a positive confidence below the bar, and whose third detector qualified
C21_Witness ==
    /\ cd_pc = "done"
    /\ Len(detectors) = 3
    /\ ~detectors[1].raises /\ detectors[1].confidence > 0 /\ ~Qualifies(1)
    /\ detectors[2].raises
    /\ Qualifies(3)
    /\ cd_invoked = <<1, 2, 3>>
    /\ cd_return.detected
    /\ cd_return.confidence = detectors[3].confidence

-----------------------------------------------------------------------------
\* Properties of StateMachineExecutor.run

\* the states entered so far, in order
EnterCalls == SelectSeq(calls, LAMBDA c : c[1] = "enter")
EnteredStates == [i \in 1..Len(EnterCalls) |-> EnterCalls[i][2]]

\* the calls made inside the while loop
LoopCalls == SelectSeq(calls, LAMBDA c : c[1] # "detect")

IsPrefix(p, q) == Len(p) <= Len(q) /\ \A i \in 1..Len(p) : p[i] = q[i]

\* c is a chain of registered states: each state's transition names the
\* next one and the last state's transition returns none
IsChain(c) ==
    /\ Len(c) >= 1
    /\ \A i \in 1..Len(c) : c[i] \in Range(states)
    /\ \A i \in 1..(Len(c) - 1) : transition_of[c[i]] = c[i + 1]
    /\ transition_of[c[Len(c)]] = None

Chains == {c \in DistinctSeqs(StateNames, Cardinality(StateNames)) : IsChain(c)}

\* no state registered before s detects the initial context
NoEarlierDetects(s) ==
    \A i, j \in 1..Len(states) : (states[j] = s /\ i < j) => ~detect_of[states[i]]

\* the run follows chain c: what it has entered is a prefix of c, it takes no
\* more iterations than c has states, it can always take its next step until
\* it has returned, and then it has entered exactly c
ChainIsRun(c) ==
    /\ IsPrefix(EnteredStates, c)
    /\ iterations <= Len(c)
    /\ run_pc # "raised"
    /\ run_pc # "done" => ENABLED ExNext
    /\ run_pc = "done" => (EnteredStates = c /\ current_state = None)

\* C2 (as stated): for any chain of registered states whose first state
\* detects the initial context, the run enters exactly the states of the
\* chain, each once, in chain order, and ends with no current state.
C2_AnyDetectingChainIsRun ==
    \A c \in Chains : detect_of[c[1]] => ChainIsRun(c)

\* C2 (amended): the same, for a chain whose first state is the first
\* registered state that detects the initial context.
C2_FirstDetectingChainIsRun ==
    \A c \in Chains : (detect_of[c[1]] /\ NoEarlierDetects(c[1])) => ChainIsRun(c)

\* a finished run over a chain of three states
C2_Witness ==
    /\ run_pc = "done"
    /\ \E c \in Chains :
         /\ Len(c) = 3
         /\ detect_of[c[1]] /\ NoEarlierDetects(c[1])
         /\ EnteredStates = c
    /\ Len(LoopCalls) = 12

CallCycle == <<"enter", "execute", "transition", "exit">>

C3_OrderInv ==
    /\ \A n \in 1..Len(LoopCalls) :
         /\ LoopCalls[n][1] = CallCycle[((n - 1) % 4) + 1]
         /\ LoopCalls[n][2] = LoopCalls[n - ((n - 1) % 4)][2]
    /\ run_pc \in {"exit", "move"} =>
         \A k \in Keys :
            transition_seen[k] =
               IF ~exec_result.is_none /\ exec_result.map[k] # Absent
               THEN exec_result.map[k]
               ELSE exec_context[k]

C3_MoveStep ==
    (current_state' # current_state /\ current_state # None) =>
        /\ Len(calls) >= 2
        /\ calls[Len(calls)] = <<"exit", current_state>>
        /\ calls[Len(calls) - 1] = <<"transition", current_state>>

\* C3: in every loop iteration the calls on the current state come in the
\* order enter, execute, transition, exit; transition is called with the
\* context in which the output of execute is already merged; the current
\* state changes only after its exit, which follows its transition.
C3_EnterExecuteTransitionExit == []C3_OrderInv /\ [][C3_MoveStep]_vars

\* transition has just been called in a second iteration, after an execute
\* whose output overwrote one key and left the other
C3_Witness ==
    /\ run_pc = "exit"
    /\ iterations = 2
    /\ exec_context["k1"] = "v1" /\ exec_context["k2"] = "v1"
    /\ ~exec_result.is_none /\ exec_result.map["k1"] = "v2" /\ exec_result.map["k2"] = Absent
    /\ transition_seen["k1"] = "v2" /\ transition_seen["k2"] = "v1"

\* execute() returned a mapping with at least one key
NonEmptyMapping(r) == ~r.is_none /\ \E k \in Keys : r.map[k] # Absent

\* C25: after execute returns a non-empty mapping, the context maps every
\* key of the mapping to the returned value and every other key is as it
\* was; after None or an empty mapping the context is as it was.
C25_MergeOverwritesByKey ==
    run_pc = "transition" =>
        IF NonEmptyMapping(exec_result)
        THEN \A k \in Keys :
                context[k] = IF exec_result.map[k] # Absent
                             THEN exec_result.map[k]
                             ELSE exec_context[k]
        ELSE context = exec_context

\* execute has just returned a mapping with one key, which was in the
\* context with another value, next to a key the mapping does not have
C25_Witness ==
    /\ run_pc = "transition"
    /\ exec_context["k1"] = "v1" /\ exec_context["k2"] = "v2"
    /\ ~exec_result.is_none
    /\ exec_result.map["k1"] = "v2" /\ exec_result.map["k2"] = Absent
    /\ context["k1"] = "v2" /\ context["k2"] = "v2"

OnlyDetectCalls == \A n \in 1..Len(calls) : calls[n][1] = "detect"

\* C4: the initial state is the first state in registration order whose
\* detect is true; when no detect is true the run ends at once, with no
\* enter, execute, transition or exit call and the context unchanged.
C4_InitialStateIsFirstDetecting ==
    run_pc # "find_initial" =>
        IF \E i \in 1..Len(states) : detect_of[states[i]]
        THEN \E i \in 1..Len(states) :
                /\ detect_of[states[i]]
                /\ \A j \in 1..(i - 1) : ~detect_of[states[j]]
                /\ Len(EnteredStates) >= 1 => EnteredStates[1] = states[i]
                /\ iterations = 0 => (current_state = states[i] /\ run_pc = "enter")
        ELSE /\ run_pc = "done"
             /\ current_state = None
             /\ OnlyDetectCalls
             /\ context = initial_context

\* the second of three registered states was entered first, although the
\* third one detects the initial context too
C4_Witness ==
    /\ Len(states) = 3
    /\ ~detect_of[states[1]] /\ detect_of[states[2]] /\ detect_of[states[3]]
    /\ Len(EnteredStates) >= 1
    /\ EnteredStates[1] = states[2]

C5_ExitInv ==
    /\ run_pc # "raised"
    /\ run_pc = "move" => calls[Len(calls)] = <<"exit", current_state>>

C5_StopStep ==
    (run_pc = "move" /\ (next_state_name = None \/ next_state_name \notin Range(states))) =>
        /\ run_pc' = "done"
        /\ current_state' = None
        /\ calls' = calls
        /\ context' = context

\* C5: when transition returns a name that is not registered the run ends
\* as it does on none: exit has been called on the current state, no
\* further call is made on any state, and nothing is raised.
C5_UnknownNameEndsRun == []C5_ExitInv /\ [][C5_StopStep]_vars

\* a run that ended in its second iteration on an unregistered name
C5_Witness ==
    /\ run_pc = "done"
    /\ next_state_name # None
    /\ next_state_name \notin Range(states)
    /\ iterations = 2
    /\ calls[Len(calls)] = <<"exit", EnteredStates[2]>>

-----------------------------------------------------------------------------
\* Properties of NetworkRotator

LastCallIs(op) == rot_call.op = op

\* the proxies of the pool that were not quarantined when the last call was made
FreeBefore == {p \in Range(proxies) : p \notin rot_call.quarantined_before}

C6_ReturnedInv ==
    (LastCallIs("get_proxy") /\ rot_call.ret # None) =>
        quarantined[rot_call.ret] = NotQuarantined

C6_Step ==
    /\ \A p \in ProxyIds :
         (quarantined[p] # NotQuarantined /\ quarantined'[p] = NotQuarantined) =>
             quarantined[p] < now
    /\ (rot_call'.op = "report_failure" /\ rot_call'.trigger = BLOCK) =>
             quarantined'[rot_call'.proxy] = now + BlockQuarantineSeconds

\* C6: get_proxy never returns a proxy that is in the quarantine set when it
\* returns; report_failure(p, BLOCK) puts p in the set with expiry one hour
\* ahead, and a proxy leaves the set only once its expiry time has passed.
C6_QuarantinedNeverReturned == []C6_ReturnedInv /\ [][C6_Step]_vars

\* get_proxy returned a proxy that was blocked and quarantined before and
\* whose quarantine the call found expired
C6_Witness ==
    /\ LastCallIs("get_proxy")
    /\ rot_call.ret # None
    /\ rot_call.ret \in rot_call.quarantined_before
    /\ proxy_metrics[rot_call.ret].blocks >= 1
    /\ now > proxy_metrics[rot_call.ret].last_failure + BlockQuarantineSeconds

\* C7: report_failure(p, t) with t in RATE_LIMIT, CAPTCHA, BLOCK, called when
\* p is the current proxy and another proxy of the pool is not quarantined,
\* leaves a current proxy different from p.
C7_FailureSwitchesAway ==
    ( /\ LastCallIs("report_failure")
      /\ rot_call.trigger \in {RATE_LIMIT, CAPTCHA, BLOCK}
      /\ rot_call.current_before = rot_call.proxy
      /\ FreeBefore \ {rot_call.proxy} # {} )
    => current_proxy # rot_call.proxy

\* success rate as the claim defines it, compared by cross-multiplication
RateNum(p) == IF proxy_metrics[p].total_requests = 0 THEN 1 ELSE proxy_metrics[p].successes
RateDen(p) == IF proxy_metrics[p].total_requests = 0 THEN 1 ELSE proxy_metrics[p].total_requests
RateAtMost(p, q) == RateNum(p) * RateDen(q) <= RateNum(q) * RateDen(p)

\* C8: when some proxy of the pool is not quarantined, get_proxy returns a
\* non-quarantined proxy whose success rate is maximal among the
\* non-quarantined proxies, and makes it the current proxy.
C8_ReturnsBestAvailable ==
    (LastCallIs("get_proxy") /\ FreeBefore # {}) =>
        /\ rot_call.ret \in FreeBefore
        /\ quarantined[rot_call.ret] = NotQuarantined
        /\ \A q \in Range(proxies) :
              quarantined[q] = NotQuarantined => RateAtMost(q, rot_call.ret)
        /\ current_proxy = rot_call.ret

\* get_proxy preferred the second proxy of the pool, tested and strictly
\* better than the first, which was available too
C8_Witness ==
    /\ LastCallIs("get_proxy")
    /\ Len(proxies) = 2
    /\ FreeBefore = Range(proxies)
    /\ rot_call.ret = proxies[2]
    /\ proxy_metrics[proxies[2]].total_requests > 0
    /\ ~RateAtMost(proxies[2], proxies[1])

\* C9: a get_proxy call leaves no proxy in the quarantine set whose expiry
\* time has passed, whether or not other proxies are available.
C9_GetProxyReleasesExpired ==
    LastCallIs("get_proxy") =>
        \A p \in Range(proxies) :
            ~(quarantined[p] # NotQuarantined /\ quarantined[p] < now)

\* C10 (as stated): every report_failure(p, BLOCK) raises quarantined_count by 1.
C10_BlockAddsOne ==
    (LastCallIs("report_failure") /\ rot_call.trigger = BLOCK) =>
        QuarantinedCount(quarantined) = Cardinality(rot_call.quarantined_before) + 1

\* C10 (amended): report_failure(p, BLOCK) raises quarantined_count by 1
\* when p was not quarantined before the call and leaves it unchanged when
\* p was; in both cases p is quarantined afterwards.
C10_BlockAddsOneIfNew ==
    (LastCallIs("report_failure") /\ rot_call.trigger = BLOCK) =>
        /\ quarantined[rot_call.proxy] # NotQuarantined
        /\ QuarantinedCount(quarantined) =
              Cardinality(rot_call.quarantined_before) +
              (IF rot_call.proxy \in rot_call.quarantined_before THEN 0 ELSE 1)

\* a BLOCK report on a free proxy, with the other proxy already quarantined,
\* took the count from 1 to 2
C10_Witness ==
    /\ LastCallIs("report_failure")
    /\ rot_call.trigger = BLOCK
    /\ rot_call.proxy \notin rot_call.quarantined_before
    /\ Cardinality(rot_call.quarantined_before) = 1
    /\ QuarantinedCount(quarantined) = 2

\* the step is a report_failure call with a GEOGRAPHIC or SCHEDULED reason
SoftFailureStep ==
    /\ rot_call'.op = "report_failure"
    /\ rot_call'.trigger \in {GEOGRAPHIC, SCHEDULED}

\* C26: report_failure(p, t) with t GEOGRAPHIC or SCHEDULED leaves the
\* quarantine set and the current proxy as they were; of the counters, only
\* p's total_requests, failures and last_failure change.
C26_SoftFailureFrame ==
    [][ SoftFailureStep =>
          /\ quarantined' = quarantined
          /\ current_proxy' = current_proxy
          /\ \A q \in ProxyIds \ {rot_call'.proxy} : proxy_metrics'[q] = proxy_metrics[q]
          /\ proxy_metrics'[rot_call'.proxy] =
                [proxy_metrics[rot_call'.proxy] EXCEPT !.total_requests = @ + 1,
                                                       !.failures = @ + 1,
                                                       !.last_failure = now] ]_vars

\* a GEOGRAPHIC report on the current proxy, made while the other proxy is
\* quarantined: the reported proxy is still current, the other one is still
\* the only one quarantined, and one failure is counted
C26_Witness ==
    /\ LastCallIs("report_failure")
    /\ rot_call.trigger = GEOGRAPHIC
    /\ rot_call.proxy = "p1"
    /\ rot_call.current_before = "p1"
    /\ current_proxy = "p1"
    /\ rot_call.quarantined_before = {"p2"}
    /\ quarantined["p1"] = NotQuarantined /\ quarantined["p2"] # NotQuarantined
    /\ proxy_metrics["p1"].failures = 1
    /\ proxy_metrics["p1"].total_requests = 1
    /\ proxy_metrics["p1"].blocks = 0

-----------------------------------------------------------------------------
\* Properties of BehaviorScaler

LastEscalate == bs_call.op = "escalate"

\* C11: whenever the adjusted success rate of an escalate call is above
\* 0.95, the new current_level is max(0, old level - adjustment_rate).
C11_HighSuccessLowersLevel ==
    (LastEscalate /\ bs_call.adjusted > 9500000) =>
        current_level = Maximum(0, bs_call.level_before - bs_call.adjustment_rate)

\* escalate(0.97) without cascade metrics, rate 0.1, at level 0.5, gives 0.4
C11_Witness ==
    /\ LastEscalate
    /\ bs_call.success_rate = 970
    /\ ~bs_call.cascade_metrics.given
    /\ bs_call.adjustment_rate = 100
    /\ bs_call.level_before = 500
    /\ current_level = 400

\* C12: whenever the adjusted success rate of an escalate call is below 0.7,
\* the new current_level is min(1, old level + adjustment_rate).
C12_LowSuccessRaisesLevel ==
    (LastEscalate /\ bs_call.adjusted < 7000000) =>
        current_level = Minimum(1000, bs_call.level_before + bs_call.adjustment_rate)

\* a low-success escalate call with rate 0.1 on a scaler already at level
\* 1.0, which stays at 1.0
C12_Witness ==
    /\ LastEscalate
    /\ bs_call.adjusted < 7000000
    /\ bs_call.adjustment_rate = 100
    /\ bs_call.level_before = 1000
    /\ current_level = 1000

\* C13: whenever the adjusted success rate of an escalate call lies in the
\* closed band [0.7, 0.95], current_level is left as it was.
C13_BandKeepsLevel ==
    (LastEscalate /\ bs_call.adjusted >= 7000000 /\ bs_call.adjusted <= 9500000) =>
        current_level = bs_call.level_before

\* an escalate call whose adjusted rate is exactly 0.95, with rate 0.1 on a
\* scaler at level 0.5, which stays at 0.5
C13_Witness ==
    /\ LastEscalate
    /\ bs_call.adjusted = 9500000
    /\ bs_call.adjustment_rate = 100
    /\ bs_call.level_before = 500
    /\ current_level = 500

\* C14: current_level is in [0,1] in every reachable state.
C14_LevelInUnitInterval ==
    /\ 0 <= current_level
    /\ current_level <= 1000

\* the structural penalty and the fallback penalty both apply, and no other
\* adjustment does
BothPenaltiesApply(m) ==
    /\ m.given
    /\ m.xpath_success_rate + m.css_success_rate < 1400
    /\ m.text_fallback_rate + m.visual_fallback_rate > 200
    /\ m.avg_position <= 500

\* C15: when the structural penalty and the fallback penalty both apply, the
\* rate escalate uses is success_rate * 0.8 * (1 - f * 0.4), f the sum of
\* the two fallback rates.
C15_PenaltiesCompound ==
    (LastEscalate /\ BothPenaltiesApply(bs_call.cascade_metrics)) =>
        LET m == bs_call.cascade_metrics
            f == m.text_fallback_rate + m.visual_fallback_rate
        IN  bs_call.adjusted * 10 = bs_call.success_rate * 8 * (10000 - 4 * f)

\* a profile given in thousandths, in the millionths scale() returns
InMillionths(p) ==
    BehaviorProfile(<<p.delay_range[1] * 1000, p.delay_range[2] * 1000>>,
                    p.mouse_movement, p.scroll_behavior,
                    IF p.typing_cadence = NoCadence
                    THEN NoCadence
                    ELSE <<p.typing_cadence[1] * 1000, p.typing_cadence[2] * 1000>>,
                    p.jitter * 1000)

LastScale == bs_call.op = "scale"

\* C23: scale(0.0) is field-for-field equal to min_profile and scale(1.0) is
\* field-for-field equal to max_profile.
C23_ScaleEndpointsAreProfiles ==
    /\ (LastScale /\ bs_call.level = 0) => bs_call.ret = InMillionths(min_profile)
    /\ (LastScale /\ bs_call.level = 1000) => bs_call.ret = InMillionths(max_profile)

\* the profile scale(l) returns in the current state
ScaleNow(l) == ScaleOn(min_profile, max_profile, l)

C24_ReturnInv == LastScale => bs_call.ret = ScaleNow(bs_call.level)

\* a scale call changes nothing, and no call changes the two profiles
C24_Step ==
    /\ bs_call'.op = "scale" => UNCHANGED <<current_level, min_profile, max_profile>>
    /\ UNCHANGED <<min_profile, max_profile>>

\* C24: scale(level) leaves current_level, min_profile and max_profile
\* unchanged, and the profile it returns depends on the level and on the two
\* profiles only, which no other call on the scaler changes.
C24_ScaleIsPure == []C24_ReturnInv /\ [][C24_Step]_vars

\* scale(0.5) on the predefined pair after escalate calls have moved the
\* level to 1.0: the profile is the one scale(0.5) returns on a new scaler
C24_Witness ==
    /\ LastScale
    /\ min_profile = MACHINE_LIKE_PROFILE /\ max_profile = HUMAN_LIKE_PROFILE
    /\ bs_call.level = 500
    /\ bs_call.level_before = 1000
    /\ current_level = 1000
    /\ bs_call.ret = BehaviorProfile(<<500000, 1550000>>, TRUE, TRUE,
                                     <<25000, 75000>>, 150000)

-----------------------------------------------------------------------------
\* Properties of CascadeExecutor.execute

\* selector i succeeds: the driver does not raise and the query finds something
SucceedsAt(i) ==
    /\ ~selectors[i].raises
    /\ TrySelector(selectors[i]).shape # "None"

IsFirstSuccess(i) ==
    /\ i \in 1..Len(selectors)
    /\ SucceedsAt(i)
    /\ \A j \in 1..(i - 1) : ~SucceedsAt(j)

NoneSucceeds == \A i \in 1..Len(selectors) : ~SucceedsAt(i)

\* the selectors were tried in declared order, each once, from the first one
TriedInOrder == \A k \in 1..Len(ce_tried) : ce_tried[k] = k

\* C16: with a driver, the selectors are tried in declared order and the
\* cascade stops at the first selector that succeeds, returning that
\* selector's result; no later selector is tried or queried.
C16_StopsAtFirstSuccess ==
    has_driver =>
        /\ TriedInOrder
        /\ \A i \in 1..Len(selectors) :
              IsFirstSuccess(i) =>
                  /\ Len(ce_tried) <= i
                  /\ \A k \in 1..Len(ce_queries) : ce_queries[k] <= i
                  /\ ce_pc = "done" =>
                        /\ Len(ce_tried) = i
                        /\ ce_return = TrySelector(selectors[i])

\* a finished call in which the first selector found nothing, the second
\* one found elements, and a third one was left untried
C16_Witness ==
    /\ ce_pc = "done"
    /\ has_driver
    /\ Len(selectors) = 3
    /\ IsFirstSuccess(2)
    /\ ~selectors[1].raises
    /\ SucceedsAt(3)
    /\ ce_tried = <<1, 2>>
    /\ ce_return = ReturnElements(selectors[2].found)

\* C17: execute returns None exactly when the context has no driver, in
\* which case no driver query is made, or no selector succeeds, in which
\* case every selector has been tried exactly once, in order.
C17_NoneIffNoDriverOrAllFail ==
    ce_pc = "done" =>
        /\ (ce_return = ReturnNone) <=> (~has_driver \/ NoneSucceeds)
        /\ ~has_driver => (ce_tried = <<>> /\ ce_queries = <<>>)
        /\ (has_driver /\ NoneSucceeds) =>
              (TriedInOrder /\ Len(ce_tried) = Len(selectors))

\* a finished call without a driver, on a cascade whose first selector
\* would have succeeded
C17_Witness ==
    /\ ce_pc = "done"
    /\ ~has_driver
    /\ Len(selectors) >= 1
    /\ SucceedsAt(1)
    /\ ce_return = ReturnNone
    /\ ce_queries = <<>>

\* what execute returns on a cascade whose raising selectors simply fail
ResultSkippingRaisers ==
    IF NoneSucceeds
    THEN ReturnNone
    ELSE TrySelector(selectors[CHOOSE i \in 1..Len(selectors) : IsFirstSuccess(i)])

\* C18: a driver exception on one selector counts as that selector failing:
\* the cascade goes on with the next selector, and the call returns what it
\* returns when the raising selectors find nothing.
C18_ExceptionIsFailure ==
    (ce_pc = "done" /\ has_driver) =>
        /\ ce_return = ResultSkippingRaisers
        /\ \A j \in 1..Len(selectors) :
              (selectors[j].raises /\ \A k \in 1..(j - 1) : ~SucceedsAt(k)) =>
                  /\ \E n \in 1..Len(ce_tried) : ce_tried[n] = j
                  /\ j < Len(selectors) =>
                        \E n \in 1..Len(ce_tried) : ce_tried[n] = j + 1

\* a finished call whose first selector raised and whose second one succeeded
C18_Witness ==
    /\ ce_pc = "done"
    /\ has_driver
    /\ Len(selectors) >= 2
    /\ selectors[1].raises
    /\ SucceedsAt(2)
    /\ ce_tried = <<1, 2>>
    /\ ce_return = TrySelector(selectors[2])

\* C19: on success the returned value carries, with the found result, the
\* 0-based position of the selector that succeeded and its kind.
C19_ReturnCarriesPositionAndKind ==
    (ce_pc = "done" /\ ce_return # ReturnNone) =>
        /\ {"result", "position", "selector_type"} \subseteq DOMAIN ce_return
        /\ \E i \in 1..Len(selectors) :
              /\ IsFirstSuccess(i)
              /\ ce_return.result = TrySelector(selectors[i])
              /\ ce_return.position = i - 1
              /\ ce_return.selector_type = selectors[i].selector_type

-----------------------------------------------------------------------------
\* Properties of CompositeDetector.detect

\* c is the least / the greatest confidence among the children's results
IsLeastConfidence(c) ==
    /\ \E i \in 1..Len(comp_detectors) : comp_detectors[i].confidence = c
    /\ \A i \in 1..Len(comp_detectors) : comp_detectors[i].confidence >= c

IsGreatestConfidence(c) ==
    /\ \E i \in 1..Len(comp_detectors) : comp_detectors[i].confidence = c
    /\ \A i \in 1..Len(comp_detectors) : comp_detectors[i].confidence <= c

\* C22: with AND logic detected is true iff all children detected and the
\* confidence is the minimum of the children's confidences; with OR logic
\* detected is true iff any child detected and the confidence is the maximum.
C22_AndMinOrMax ==
    comp_pc = "done" =>
        /\ logic = "AND" =>
              /\ comp_return.detected <=>
                    \A i \in 1..Len(comp_detectors) : comp_detectors[i].detected
              /\ comp_detectors # <<>> => IsLeastConfidence(comp_return.confidence)
        /\ logic = "OR" =>
              /\ comp_return.detected <=>
                    \E i \in 1..Len(comp_detectors) : comp_detectors[i].detected
              /\ comp_detectors # <<>> => IsGreatestConfidence(comp_return.confidence)

\* AND over children 0.9 and 0.3, both detected, gives detected with 0.3
C22_Witness ==
    /\ comp_pc = "done"
    /\ logic = "AND"
    /\ comp_detectors = << [raises |-> FALSE, detected |-> TRUE, confidence |-> 9],
                           [raises |-> FALSE, detected |-> TRUE, confidence |-> 3] >>
    /\ comp_return.detected
    /\ comp_return.confidence = 3

-----------------------------------------------------------------------------
\* Properties of CascadeMetrics

SameValue(a, b) == a.num * b.den = b.num * a.den

IsOne(q) == q.den > 0 /\ q.num = q.den

IsZero(q) == q.den > 0 /\ q.num = 0

C27_ColdStartInv ==
    (cm_call.op = "get_metrics" /\ total_attempts = 0) =>
        /\ IsOne(cm_call.ret.primary_success_rate)
        /\ IsOne(cm_call.ret.overall_success_rate)
        /\ IsZero(cm_call.ret.text_fallback_rate)
        /\ IsZero(cm_call.ret.visual_fallback_rate)
        /\ IsZero(cm_call.ret.avg_position)

C27_GetStep ==
    cm_call'.op = "get_metrics" =>
        UNCHANGED <<total_attempts, primary_successes, fallback_successes,
                    text_fallbacks, visual_fallbacks, position_sum, cascade_length>>

\* C27: with zero recorded attempts get_metrics returns 1.0 for the primary
\* and the overall success rate and 0.0 for the two fallback rates and for
\* avg_position; get_metrics changes no counter.
C27_ColdStartMetrics == []C27_ColdStartInv /\ [][C27_GetStep]_vars

\* get_metrics on metrics that were reset after two records
C27_Witness ==
    /\ cm_call.op = "get_metrics"
    /\ cm_call.records = 2
    /\ total_attempts = 0
    /\ cm_call.ret.primary_success_rate = Quotient(1, 1)
    /\ cm_call.ret.overall_success_rate = Quotient(1, 1)
    /\ cm_call.ret.avg_position = Quotient(0, 1)

\* the sum, in halves, of position / (cascade_length - 1) over the recorded
\* successes, 0 standing for a cascade of length 1
RECURSIVE NormalizedSum(_)
NormalizedSum(rec) ==
    IF rec = <<>> THEN 0
    ELSE (IF Head(rec)[2] = 1 THEN 0 ELSE (2 * Head(rec)[1]) \div (Head(rec)[2] - 1))
         + NormalizedSum(Tail(rec))

\* avg_position as get_metrics() gives it in the current state
AvgPositionNow ==
    GetMetricsOn(total_attempts, primary_successes, fallback_successes,
                 text_fallbacks, visual_fallbacks, position_sum).avg_position

\* C28: avg_position is the sum of the normalized positions of the recorded
\* successes divided by their number, lies in [0,1], and is not changed by
\* record_failure.
C28_AvgPositionIsMeanOverSuccesses ==
    /\ recorded # <<>> =>
          AvgPositionNow.num * 2 * Len(recorded) = NormalizedSum(recorded) * AvgPositionNow.den
    /\ AvgPositionNow.den > 0
    /\ 0 <= AvgPositionNow.num
    /\ AvgPositionNow.num <= AvgPositionNow.den
    /\ cm_call.op = "record_failure" => SameValue(AvgPositionNow, cm_call.avg_before)

\* a failure recorded after successes at position 1 of 3 and position 1 of 2:
\* avg_position is 3/4 before and after
C28_Witness ==
    /\ cm_call.op = "record_failure"
    /\ recorded = << <<1, 3>>, <<1, 2>> >>
    /\ total_attempts = 3
    /\ AvgPositionNow = Quotient(3, 4)
    /\ cm_call.avg_before = Quotient(3, 4)

-----------------------------------------------------------------------------
\* Properties of the shared NetworkRotator

AllCallsCompleted == \A w \in Workers : rw_pc[w] = "idle"

\* C29: once all the workers' report_success and report_failure calls have
\* completed, total_requests of a proxy is the number of calls made on it,
\* and successes and failures are the numbers of report_success and
\* report_failure calls.
C29_NoLostCounterUpdate ==
    AllCallsCompleted =>
        \A p \in ProxyIds :
            /\ proxy_metrics[p].total_requests
                  = rw_counts[p].successes + rw_counts[p].failures
            /\ proxy_metrics[p].successes = rw_counts[p].successes
            /\ proxy_metrics[p].failures = rw_counts[p].failures

-----------------------------------------------------------------------------
\* Properties of the shared BehaviorScaler

BothEscalatesCompleted == \A w \in Workers : sw_pc[w] = "done"

\* the two workers' calls both lower the level, or both raise it
SameDirection ==
    \/ \A w \in Workers : HighSuccess(WorkerAdjusted(w))
    \/ \A w \in Workers : LowSuccess(WorkerAdjusted(w))

\* current_level after worker a's call and then worker b's call, one after
\* the other, from the level the workers started at
SequentialLevel(a, b) ==
    EscalatedLevel(
        EscalatedLevel(sw_start, WorkerAdjusted(a), sw_args[a].adjustment_rate),
        WorkerAdjusted(b), sw_args[b].adjustment_rate)

\* C30: after two concurrent escalate calls in the same direction,
\* current_level is the level that the two calls made one after the other,
\* in one of the two orders, leave.
C30_ConcurrentEscalatesSerialize ==
    (BothEscalatesCompleted /\ SameDirection) =>
        \/ current_level = SequentialLevel("w1", "w2")
        \/ current_level = SequentialLevel("w2", "w1")

-----------------------------------------------------------------------------
\* Properties of NetworkRotator: quarantine expiry, availability, counters

\* the call just made put its proxy in quarantine
QuarantiningCall ==
    \/ rot_call.op = "quarantine"
    \/ rot_call.op = "report_failure" /\ rot_call.trigger = BLOCK

\* C31: after quarantine(proxy, duration_seconds) or report_failure(p, BLOCK)
\* the expiry stored for the proxy is strictly later than the time of the
\* call.
C31_ExpiryAfterCall ==
    QuarantiningCall => quarantined[rot_call.proxy] > now

\* the proxies of the pool whose quarantine has expired
ExpiredInPool == {p \in Range(proxies) : quarantined[p] # NotQuarantined /\ quarantined[p] < now}

AllPoolQuarantined == \A p \in Range(proxies) : quarantined[p] # NotQuarantined

\* a get_proxy() call, seen from the state it is made in
C34_Step ==
    rot_call'.op = "get_proxy" =>
        /\ rot_call'.ret = None <=>
              (proxies = <<>> \/ (AllPoolQuarantined /\ ExpiredInPool = {}))
        /\ (proxies # <<>> /\ AllPoolQuarantined /\ ExpiredInPool # {}) =>
              /\ rot_call'.ret \in ExpiredInPool
              /\ \A p \in ProxyIds :
                    quarantined'[p] = IF p \in ExpiredInPool THEN NotQuarantined
                                      ELSE quarantined[p]

\* C34: get_proxy returns None exactly when the pool is empty or every proxy
\* of the pool is quarantined with an expiry that has not passed; when every
\* proxy is quarantined and some quarantine has expired, the call removes
\* the expired entries and returns one of their proxies.
C34_NoneIffNothingSelectable == [][C34_Step]_vars

\* get_proxy on a pool of two quarantined proxies released one of them and
\* left the other in quarantine
C34_Witness ==
    /\ rot_call.op = "get_proxy"
    /\ rot_call.ret # None
    /\ Len(proxies) = 2
    /\ rot_call.quarantined_before = Range(proxies)
    /\ quarantined[rot_call.ret] = NotQuarantined
    /\ \E p \in Range(proxies) : quarantined[p] # NotQuarantined

\* C36: when quarantine is applied through report_failure only, the current
\* proxy is None or a proxy that is not in the quarantine set.
C36_CurrentNotQuarantined ==
    current_proxy = None \/ quarantined[current_proxy] = NotQuarantined

\* C38: for every proxy, after any sequence of report_success,
\* report_failure and reset_metrics calls, total_requests = successes +
\* failures and rate_limits + captchas + blocks <= failures, and
\* get_metrics()['overall_success_rate'] lies in [0, 1].
C38_CountersConsistent ==
    /\ \A p \in ProxyIds :
          /\ proxy_metrics[p].total_requests
                = proxy_metrics[p].successes + proxy_metrics[p].failures
          /\ proxy_metrics[p].rate_limits + proxy_metrics[p].captchas
                + proxy_metrics[p].blocks <= proxy_metrics[p].failures
    /\ OverallSuccessRate(proxy_metrics)[2] > 0
    /\ 0 <= OverallSuccessRate(proxy_metrics)[1]
    /\ OverallSuccessRate(proxy_metrics)[1] <= OverallSuccessRate(proxy_metrics)[2]

\* get_metrics() after one success and one soft failure on p1:
\* overall_success_rate is 1/2
C38_Witness ==
    /\ rot_call.op = "get_metrics"
    /\ proxy_metrics["p1"].successes = 1
    /\ proxy_metrics["p1"].failures = 1
    /\ proxy_metrics["p1"].rate_limits + proxy_metrics["p1"].captchas
          + proxy_metrics["p1"].blocks = 0
    /\ OverallSuccessRate(proxy_metrics) = <<1, 2>>

-----------------------------------------------------------------------------
\* Properties of CascadeDetector.detect: the threshold

-----------------------------------------------------------------------------
\* Properties of StateMachineExecutor.run: detect calls, enter and exit

\* the detect() calls come before every other call, at most one per state
DetectOnlyAtStart ==
    /\ \A i, j \in 1..Len(calls) :
          (calls[i][1] = "detect" /\ calls[j][1] # "detect") => i < j
    /\ Len(calls) - Len(LoopCalls) <= Len(states)

\* the move to the state named by transition calls nothing, and that state
\* is the one entered next
C39_MoveStep ==
    (run_pc = "move" /\ run_pc' = "enter") =>
        /\ calls' = calls
        /\ current_state' = next_state_name

C39_EnterStep ==
    (run_pc = "enter" /\ run_pc' = "execute") =>
        calls' = Append(calls, <<"enter", current_state>>)

\* C39: detect is invoked only while the initial state is selected; in the
\* loop the state named by transition becomes current and is entered and
\* executed without a call of its detect.
C39_DetectOnlyForInitialState ==
    []DetectOnlyAtStart /\ [][C39_MoveStep /\ C39_EnterStep]_vars

\* a state whose detect() is false has been entered and executed
C39_Witness ==
    \E n \in 1..(Len(calls) - 1) :
        /\ calls[n][1] = "enter"
        /\ ~detect_of[calls[n][2]]
        /\ calls[n + 1] = <<"execute", calls[n][2]>>

\* the enter and exit calls made so far, in order
EnterExitCalls == SelectSeq(calls, LAMBDA c : c[1] \in {"enter", "exit"})

-----------------------------------------------------------------------------
\* Properties of DOMElementDetector.detect

\* selector i yields at least one element
DomYields(i) == ~dom_selectors[i].raises /\ dom_selectors[i].found > 0

\* the indices of the selectors queried so far, in order
DomQueried == [n \in 1..Len(dom_queries) |-> dom_queries[n][2]]

\* C32: selectors are queried in order; the call returns detected=true with
\* confidence 0.9 at the first selector yielding at least one element and
\* queries no later selector; a selector on which the driver raises counts
\* as no match; with no driver, or when no selector matches, the result is
\* detected=false with confidence 0.0; the call always returns a result.
C32_FirstMatchingSelectorWins ==
    /\ \A n \in 1..Len(dom_queries) : dom_queries[n][2] = n
    /\ \A i \in 1..Len(dom_selectors) :
          (DomYields(i) /\ \A j \in 1..(i - 1) : ~DomYields(j)) =>
              Len(dom_queries) <= i
    /\ dom_pc \in {"running", "done"}
    /\ dom_pc = "running" =>
          ENABLED (DomNoDriver \/ DomSelectorMatches \/ DomSelectorEmpty
                      \/ DomSelectorRaises \/ DomExhausted)
    /\ dom_pc = "done" =>
          IF dom_driver /\ \E i \in 1..Len(dom_selectors) : DomYields(i)
          THEN /\ dom_return.detected
               /\ dom_return.confidence = 9
               /\ DomYields(Len(dom_queries))
               /\ \A j \in 1..(Len(dom_queries) - 1) : ~DomYields(j)
          ELSE /\ ~dom_return.detected
               /\ dom_return.confidence = 0
               /\ Len(dom_queries) = IF dom_driver THEN Len(dom_selectors) ELSE 0

\* a call that returned detected=true at the third selector, after a
\* selector on which the driver raised and one that matched nothing
C32_Witness ==
    /\ dom_pc = "done"
    /\ Len(dom_selectors) = 3
    /\ dom_selectors[1].raises
    /\ ~dom_selectors[2].raises /\ dom_selectors[2].found = 0
    /\ dom_return.detected
    /\ dom_return.confidence = 9
    /\ DomQueried = <<1, 2, 3>>

-----------------------------------------------------------------------------
\* Properties of the rate-limit retry

\* transition() of the current state has just returned
TransitionReturned(s) == run_pc = "exit" /\ current_state = s

RateLimitVisited == \E n \in 1..Len(calls) : calls[n] = <<"enter", "RateLimitedState">>

\* run() has returned and the last state it ran was BackoffState
EndedAtBackoff ==
    /\ run_pc = "done"
    /\ calls # <<>>
    /\ calls[Len(calls)] = <<"exit", "BackoffState">>

C33_TransitionsInv ==
    /\ TransitionReturned("RateLimitedState") => next_state_name = "BackoffState"
    /\ TransitionReturned("BackoffState") =>
          /\ next_state_name = PreviousState(context)
          /\ next_state_name # None
          /\ context["current_time"] = context["retry_after"]

\* the claim as stated in C33: after RateLimitedState executes its
\* transition names BackoffState; after BackoffState executes its transition
\* names context.previous_state (default 'LoginState'), never none; and a
\* run that visited RateLimitedState never ends at BackoffState
C33_NeverEndsAtBackoff ==
    /\ C33_TransitionsInv
    /\ RateLimitVisited => ~EndedAtBackoff

\* C33, amended: after RateLimitedState executes its transition names
\* BackoffState; after BackoffState executes its transition names
\* context.previous_state (default 'LoginState'), never none; a run that
\* visited RateLimitedState ends at BackoffState only when that name is
\* not a registered state.
C33_EndsAtBackoffOnlyOnUnknownName ==
    /\ C33_TransitionsInv
    /\ (RateLimitVisited /\ EndedAtBackoff) => PreviousState(context) \notin Range(states)

\* a run over RateLimitedState and BackoffState only, with no previous_state
\* in the context: it ended after BackoffState named 'LoginState'
C33_Witness ==
    /\ EndedAtBackoff
    /\ RateLimitVisited
    /\ Range(states) = {"RateLimitedState", "BackoffState"}
    /\ context["previous_state"] = Absent
    /\ next_state_name = "LoginState"
    /\ context["rate_limit_attempts"] = 1
    /\ context["backoff_seconds"] = 2

-----------------------------------------------------------------------------
\* Properties of the scaler fed by failure-only metrics

\* C37: escalate(success_rate, get_metrics()) called when at least one
\* failure and no success had been recorded, with success_rate <= 0.95,
\* leaves current_level at or above the level it found.
C37_FailuresNeverLowerLevel ==
    (/\ bs_call.op = "escalate"
     /\ cm_call.op = "get_metrics"
     /\ total_attempts >= 1
     /\ primary_successes + fallback_successes = 0
     /\ bs_call.success_rate <= 950)
    => current_level >= bs_call.level_before

====
